---- MODULE Spec2Model ----
(***************************************************************************)
(* Verification model of polymarket-cpp-client: the WebSocket run/stop     *)
(* loop, the HTTP async engine, the async market-order pipeline and the    *)
(* order-book manager.  Each subsystem has its own variables, initial      *)
(* predicate and next-state relation; a subsystem's actions leave the      *)
(* other subsystems' variables unchanged.                                  *)
(***************************************************************************)
EXTENDS Integers, Sequences, FiniteSets, TLC

VARIABLES
    \* ---- WebSocketClient (src/src/websocket_client.cpp)
    state_,        \* std::atomic<WsState> state_
    running_,      \* std::atomic<bool> running_
    should_stop_,  \* std::atomic<bool> should_stop_
    ws_started,    \* ix::WebSocket background thread is running (ws_.start() .. ws_.stop())
    run_pc,        \* position of the thread executing connect(); run();
    stop_pc,       \* position of the thread executing stop()
    wait_count,    \* local wait_count of stop()
    \* ---- market-order operations of ClobClient (src/src/clob_client.cpp)
    mo,            \* the call's parameters, AsyncMarketOrderState and what the call did
    \* ---- async engine of HttpClient (src/src/http_client.cpp)
    transfer,      \* per request: where its easy handle is in the multi handle, and its result
    pending_async_requests_,  \* keys of the map easy handle -> AsyncRequest
    async_mutex_,  \* owner of async_mutex_: "free", "caller" or "worker"
    async_running_,\* std::atomic<bool> async_running_
    h_pc,          \* position of the caller thread and of the async worker thread
    completed,     \* per thread: the local vector `completed` of poll_async_internal
    next_entry,    \* per thread: position of the delivery loop in `completed`
    worker_poll,   \* which of the worker loop's two poll_async_internal calls is running
    calls,         \* per request: how many times its callback was invoked
    got,           \* per request: the HttpResponse its callback received
    \* ---- OrderbookManager (src/src/orderbook.cpp)
    subscribed_tokens_,   \* std::vector<std::string> subscribed_tokens_
    token_to_condition_,  \* token -> condition id, "none" where the map has no entry
    markets_,             \* condition id -> LiveMarketState, with a `present` flag
    orderbooks_,          \* token -> Orderbook, with a `present` flag
    markets_mutex_,       \* std::shared_mutex: its exclusive owner and its shared owners
    total_updates_,       \* std::atomic<uint64_t> total_updates_
    arb_opportunities_,   \* std::atomic<uint64_t> arb_opportunities_
    s_pc,                 \* position of the socket thread (callbacks of ws_)
    upd,                  \* the book update being handled: arguments, locals, what was called
    opened,               \* the socket open being handled: its number, what overlapped it
    joins,                \* the join messages sent for the socket open being handled
    c_pc,                 \* position of the caller thread
    c_arg,                \* the arguments of the caller thread's current operation
    caller_ops,           \* number of operations the caller thread has started
    snap,                 \* what get_market returned last, and when each field was loaded
    writes,               \* per condition: how many times its market record was written
    \* ---- HttpClient's synchronous calls and the ClobClient facade (src/src/clob_client.cpp)
    curl_,         \* the options the shared easy handle keeps between calls
    wire,          \* the exchanges of the current call, in order: request, reply, response
    last_response, \* the HttpResponse of the current call's last request
    fa,            \* the facade call: operation, client, what it signed, how it ended
    \* ---- book ingestion on the socket thread alone (src/src/orderbook.cpp)
    feed,          \* the manager's maps and counters, the last message and what became of it
    \* ---- amount derivation of a market order, and to_wei (src/src/clob_client.cpp, order_signer.cpp)
    amt,           \* the statement reached and the local doubles computed so far
    \* ---- the heartbeat thread and the caller's synchronous calls (src/src/http_client.cpp)
    hb             \* the easy handle's options, headers_, curl_mutex_, both threads' positions

wsVars == <<state_, running_, should_stop_, ws_started, run_pc, stop_pc, wait_count>>

moVars == <<mo>>

httpVars == <<transfer, pending_async_requests_, async_mutex_, async_running_, h_pc,
              completed, next_entry, worker_poll, calls, got>>

obVars == <<subscribed_tokens_, token_to_condition_, markets_, orderbooks_, markets_mutex_,
            total_updates_, arb_opportunities_, s_pc, upd, opened, joins, c_pc, c_arg,
            caller_ops, snap, writes>>

faVars == <<curl_, wire, last_response, fa>>

feedVars == <<feed>>

amtVars == <<amt>>

hbVars == <<hb>>

vars == <<wsVars, moVars, httpVars, obVars, faVars, feedVars, amtVars, hbVars>>

(***************************************************************************)
(* Market-order operations of the CLOB client facade                       *)
(* Prices and ticks are integers in units of 1/10000.                      *)
(***************************************************************************)

\* prices are kept in ten-thousandths: 1.0 is 10000
PriceScale == 100 * 100

\* std::stod on a tick-size string; -1 stands for the std::invalid_argument it throws
stod(t) ==
    CASE t = "0.1" -> 1000
      [] t = "0.01" -> 100
      [] t = "0.010" -> 100
      [] t = "0.001" -> 10
      [] t = "0.0001" -> 1
      [] t = "0.5" -> 5000
      [] OTHER -> -1

\* normalize_tick_size: fixed 6-decimal rendering of stod(t) with trailing zeros removed
normalize_tick_size(t) ==
    CASE stod(t) = 1000 -> "0.1"
      [] stod(t) = 100 -> "0.01"
      [] stod(t) = 10 -> "0.001"
      [] stod(t) = 1 -> "0.0001"
      [] stod(t) = 5000 -> "0.5"
      [] OTHER -> "throw"

\* kRoundingConfig: tick size -> (price, size, amount) decimals
kRoundingConfig ==
    [t \in {"0.1", "0.01", "0.001", "0.0001"} |->
        CASE t = "0.1" -> [price |-> 1, size |-> 2, amount |-> 3]
          [] t = "0.01" -> [price |-> 2, size |-> 2, amount |-> 4]
          [] t = "0.001" -> [price |-> 3, size |-> 2, amount |-> 5]
          [] OTHER -> [price |-> 4, size |-> 2, amount |-> 6]]

\* get_round_config: TRUE when the lookup succeeds, FALSE when it throws
\* (std::stod failure in normalize_tick_size, or "unsupported tick size")
get_round_config_ok(t) == normalize_tick_size(t) \in DOMAIN kRoundingConfig

\* price_valid: "throw" when std::stod(tick_size) throws, else tick <= price <= 1 - tick
price_valid(price, t) ==
    IF stod(t) < 0 THEN "throw"
    ELSE IF price >= stod(t) /\ price <= PriceScale - stod(t) THEN "valid" ELSE "invalid"

\* the exception calculate_*_market_price throws is returned as this value
NoMatch == 0 - 1

RECURSIVE BuyScan(_, _, _, _)
\* the reverse loop of calculate_buy_market_price: i runs from the last level to the first
BuyScan(positions, i, sum, amount_to_match) ==
    IF i = 0 THEN NoMatch
    ELSE LET sum2 == sum + positions[i].size * positions[i].price
         IN IF sum2 >= amount_to_match * PriceScale THEN positions[i].price
            ELSE BuyScan(positions, i - 1, sum2, amount_to_match)

calculate_buy_market_price(positions, amount_to_match, order_type) ==
    IF positions = <<>> THEN NoMatch
    ELSE LET hit == BuyScan(positions, Len(positions), 0, amount_to_match)
         IN IF hit # NoMatch THEN hit
            ELSE IF order_type = "FOK" THEN NoMatch
            ELSE positions[1].price

RECURSIVE SellScan(_, _, _, _)
\* the reverse loop of calculate_sell_market_price: accumulates sizes only
SellScan(positions, i, sum, amount_to_match) ==
    IF i = 0 THEN NoMatch
    ELSE LET sum2 == sum + positions[i].size
         IN IF sum2 >= amount_to_match THEN positions[i].price
            ELSE SellScan(positions, i - 1, sum2, amount_to_match)

calculate_sell_market_price(positions, amount_to_match, order_type) ==
    IF positions = <<>> THEN NoMatch
    ELSE LET hit == SellScan(positions, Len(positions), 0, amount_to_match)
         IN IF hit # NoMatch THEN hit
            ELSE IF order_type = "FOK" THEN NoMatch
            ELSE positions[1].price

\* ---- inputs of a market-order call (CreateMarketOrderParams); "none" and -1 are std::nullopt
TickInputs == {"none", "", "0.01", "0.5", "abc"}
PriceInputs == {0 - 1, 0, 5000, 9950}
NegRiskInputs == {"none", "true", "false"}
FeeInputs == {"", "0", "10", "x"}
AmountInputs == {1, 1000}

MoParams ==
    [auth : BOOLEAN, strict_no_fetch : BOOLEAN, tick_size : TickInputs, price : PriceInputs,
     neg_risk : NegRiskInputs, fee_rate_bps_provided : BOOLEAN, fee_rate_bps : FeeInputs,
     side : {"BUY", "SELL"}, order_type : {"FOK", "FAK"}, amount : AmountInputs]

\* ---- what the server may answer to each request
\* kind: "neterr" (transport failure, status 0), "http" (non-2xx), "ok" (2xx with the body)
FailResponses == {[kind |-> "neterr", body |-> "none"], [kind |-> "http", body |-> "none"]}

\* body of GET /tick-size: not JSON, JSON without minimum_tick_size, or the field's value
TickResponses ==
    FailResponses \cup
    {[kind |-> "ok", body |-> b] : b \in {"malformed", "nofield", "0.01", "0.001", "0.5", "abc"}}

\* books the server may return for GET /book (asks and bids in the server's order)
BookBodies ==
    { [asks |-> <<>>, bids |-> <<>>],
      [asks |-> <<[price |-> 6000, size |-> 10], [price |-> 5000, size |-> 10]>>,
       bids |-> <<[price |-> 4000, size |-> 10], [price |-> 4500, size |-> 10]>>],
      [asks |-> <<[price |-> 9950, size |-> 10]>>,
       bids |-> <<[price |-> 50, size |-> 10]>>] }

BookResponses ==
    {[kind |-> r.kind, body |-> r.body, book |-> [asks |-> <<>>, bids |-> <<>>]] :
        r \in FailResponses \cup {[kind |-> "ok", body |-> "malformed"]}}
    \cup {[kind |-> "ok", body |-> "book", book |-> b] : b \in BookBodies}

\* body of GET /neg-risk: not a JSON object, or the value of neg_risk (absent reads as false)
NegRiskResponses ==
    FailResponses \cup {[kind |-> "ok", body |-> b] : b \in {"malformed", "true", "false"}}

\* body of GET /fee-rate: not a JSON object, or the value of base_fee (absent reads as 0)
FeeResponses ==
    FailResponses \cup {[kind |-> "ok", body |-> b] : b \in {"malformed", "0", "10"}}

\* answer to POST /order: the parsed success flag
PostResponses ==
    FailResponses \cup {[kind |-> "ok", body |-> b] : b \in {"success", "rejected"}}

\* HttpResponse::ok(): 200 <= status_code < 300
ok(resp) == resp.kind = "ok"

\* std::stoi on the fee string; -1 stands for the exception it throws
stoi(f) == CASE f = "0" -> 0 [] f = "10" -> 10 [] OTHER -> 0 - 1

\* CreateMarketOrderParams as default-constructed (clob_client.hpp), on a read-only client
DefaultParams ==
    [auth |-> FALSE, strict_no_fetch |-> FALSE, tick_size |-> "none", price |-> 0 - 1,
     neg_risk |-> "none", fee_rate_bps_provided |-> FALSE, fee_rate_bps |-> "0",
     side |-> "BUY", order_type |-> "FOK", amount |-> 1]

\* market_fee_rate_bps assumed when the caller gives no fee rate (clob_client.cpp:1057)
DefaultMarketFee == 1000

\* before any call: default parameters, no state, nothing issued
MoIdle ==
    [pc |-> "idle", params |-> DefaultParams,
     tick_size |-> "", price |-> 0, neg_risk |-> FALSE, fee_rate_bps |-> 0,
     fee_rate_provided |-> FALSE, done |-> FALSE,
     cb |-> 0, result |-> "", requests |-> <<>>, outcomes |-> <<>>, l2_fails |-> FALSE]

MoInit == mo = MoIdle

(***************************************************************************)
(* HttpClient: requests, replies and the synchronous calls                 *)
(* The easy handle curl_ is shared by every synchronous call and keeps its *)
(* options from one call to the next.  A string that may carry a query is  *)
(* kept as its path and its query.  A response body is a sequence of       *)
(* tokens, received in chunks.                                             *)
(***************************************************************************)

\* a std::string holding a path, and the same string after  += "?..." 
Path(p) == [path |-> p, query |-> ""]

with_query(p, q) == [path |-> p.path, query |-> q]

\* what generate_l2_headers was given: the HMAC is taken over method + path + body
L2(method, path, body) == [method |-> method, path |-> path, body |-> body]

\* a request without POLY_* headers (an empty custom_headers map)
NoHeaders == L2("", Path(""), "")

\* ---- JSON documents as token sequences
Obj(v) == [t |-> "obj", v |-> v]

ObjDoc(v) == <<Obj(v)>>

ArrDoc(items) == <<[t |-> "[", v |-> ""]>> \o [i \in 1..Len(items) |-> Obj(items[i])]
                 \o <<[t |-> "]", v |-> ""]>>

JunkDoc == <<[t |-> "junk", v |-> "html"]>>

\* json::parse and the shape tests made on its result: is_array(), or a single object;
\* "error" stands for the parse_error it throws
json_parse(body) ==
    IF Len(body) = 1 /\ body[1].t = "obj"
      THEN [kind |-> "object", items |-> <<body[1].v>>]
    ELSE IF /\ Len(body) >= 2
            /\ body[1].t = "[" /\ body[Len(body)].t = "]"
            /\ \A i \in 2..(Len(body) - 1) : body[i].t = "obj"
      THEN [kind |-> "array", items |-> [i \in 1..(Len(body) - 2) |-> body[i + 1].v]]
    ELSE [kind |-> "error", items |-> <<>>]

\* write_callback: append the chunk to the body received so far
write_callback(response, chunk) == response \o chunk

\* the body after libcurl has delivered every chunk of the reply
RECURSIVE received(_, _)
received(response, chunks) ==
    IF chunks = <<>> THEN response
    ELSE received(write_callback(response, Head(chunks)), Tail(chunks))

\* curl_easy_strerror: a non-empty text for every code other than CURLE_OK
curl_easy_strerror(code) ==
    CASE code = "CURLE_COULDNT_CONNECT" -> "Couldn't connect to server"
      [] code = "CURLE_OPERATION_TIMEDOUT" -> "Timeout was reached"
      [] OTHER -> "No error"

\* a reply: how curl_easy_perform ends, the wire status code, the body's chunks on the wire
Reply(result, status, chunks) == [result |-> result, status |-> status, chunks |-> chunks]

\* transport failures: nothing received, or the timeout expires after a first chunk
NetworkFailures ==
    { Reply("CURLE_COULDNT_CONNECT", 0, <<>>),
      Reply("CURLE_OPERATION_TIMEDOUT", 0, << <<[t |-> "[", v |-> ""]>> >>) }

\* replies to a plain transport call
SyncReplies ==
    NetworkFailures \cup
    { Reply("CURLE_OK", 200, << <<[t |-> "[", v |-> ""]>>, <<[t |-> "]", v |-> ""]>> >>),
      Reply("CURLE_OK", 204, <<>>),
      Reply("CURLE_OK", 500, <<ObjDoc("error")>>) }

\* HttpResponse of a call that has not been made
NoSyncResponse == [status_code |-> 0 - 1, body |-> <<>>, error |-> "none"]

\* HttpResponse::ok() on a full response record
HttpResponse_ok(response) == response.status_code >= 200 /\ response.status_code < 300

\* perform() whose failure branch leaves the error text empty (mutant of perform)
perform_drops_error(reply) ==
    [status_code |-> IF reply.result # "CURLE_OK" THEN 0 ELSE reply.status,
     body |-> received(<<>>, reply.chunks), error |-> ""]

\* perform(): status 0 and the error text on failure, else the wire status code
perform(reply) ==
    IF reply.result # "CURLE_OK"
      THEN [status_code |-> 0, body |-> received(<<>>, reply.chunks),
            error |-> curl_easy_strerror(reply.result)]
    ELSE [status_code |-> reply.status, body |-> received(<<>>, reply.chunks), error |-> ""]

\* ---- the options the easy handle keeps between calls
\* post: the handle is in POST mode; postfields: what CURLOPT_POSTFIELDS points to
\* ("stale" once the string it pointed to is gone); customrequest: CURLOPT_CUSTOMREQUEST
FreshHandle == [post |-> FALSE, postfields |-> "", customrequest |-> "none"]

\* the request libcurl puts on the wire for the handle's options
request_on_wire(h, path, headers, body) ==
    [method |-> IF h.customrequest # "none" THEN h.customrequest
                ELSE IF h.post THEN "POST" ELSE "GET",
     url |-> path, body |-> IF h.post THEN body ELSE "", headers |-> headers]

\* HttpClient::get: CURLOPT_HTTPGET, then perform
http_get(h, path, headers) ==
    LET h1 == [h EXCEPT !.post = FALSE]
    IN [curl |-> h1, req |-> request_on_wire(h1, path, headers, "")]

\* HttpClient::post: CURLOPT_POST and CURLOPT_POSTFIELDS (not copied), then perform
http_post(h, path, body, headers) ==
    LET h1 == [h EXCEPT !.post = TRUE, !.postfields = body]
    IN [curl |-> [h1 EXCEPT !.postfields = "stale"],
        req |-> request_on_wire(h1, path, headers, body)]

\* the bodies HttpClient::del may send: its own, nothing in GET mode, or what the
\* dangling CURLOPT_POSTFIELDS of an earlier post happens to point to
del_bodies(h, body) ==
    IF body # "" THEN {body}
    ELSE IF h.post THEN {"stale", "garbage"} ELSE {""}

\* HttpClient::del: CURLOPT_CUSTOMREQUEST "DELETE", the body if not empty, perform, reset
http_del(h, path, body, sent, headers) ==
    LET h1 == [h EXCEPT !.customrequest = "DELETE",
                        !.post = IF body # "" THEN TRUE ELSE @,
                        !.postfields = IF body # "" THEN body ELSE @]
    IN [curl |-> [h1 EXCEPT !.customrequest = "none",
                            !.postfields = IF h1.post THEN "stale" ELSE @],
        req |-> request_on_wire(h1, path, headers, sent)]

\* one exchange on the wire: the request, what became of it, the HttpResponse returned
Exchange(req, reply, response) ==
    [method |-> req.method, url |-> req.url, body |-> req.body, headers |-> req.headers,
     reply |-> reply, response |-> response]

(***************************************************************************)
(* HttpClient: the multiplexed async engine                                *)
(***************************************************************************)

\* number of requests the caller enqueues
MaxRequests == 2

Requests == 1..MaxRequests

Threads == {"caller", "worker"}

\* how a transfer may end: msg->data.result and, for CURLE_OK, the wire status code
TransferResults ==
    { Reply("CURLE_OK", 200, << <<[t |-> "[", v |-> ""]>>, <<[t |-> "]", v |-> ""]>> >>),
      Reply("CURLE_OK", 500, <<ObjDoc("error")>>),
      Reply("CURLE_COULDNT_CONNECT", 0, <<>>),
      Reply("CURLE_OPERATION_TIMEDOUT", 0, << <<[t |-> "[", v |-> ""]>> >>) }

NoResult == Reply("none", 0, <<>>)

NoResponse == [status_code |-> 0 - 1, body |-> <<>>, error |-> "none"]

\* the HttpResponse poll_async_internal builds from a CURLMSG_DONE message
response_of(res) ==
    IF res.result # "CURLE_OK"
    THEN [status_code |-> 0, body |-> received(<<>>, res.chunks),
          error |-> curl_easy_strerror(res.result)]
    ELSE [status_code |-> res.status, body |-> received(<<>>, res.chunks), error |-> ""]

HttpInit ==
    /\ transfer = [r \in Requests |-> [st |-> "new", res |-> NoResult]]
    /\ pending_async_requests_ = {}
    /\ async_mutex_ = "free"
    /\ async_running_ = FALSE
    /\ h_pc = [t \in Threads |-> IF t = "caller" THEN "idle" ELSE "not_started"]
    /\ completed = [t \in Threads |-> <<>>]
    /\ next_entry = [t \in Threads |-> 1]
    /\ worker_poll = 1
    /\ calls = [r \in Requests |-> 0]
    /\ got = [r \in Requests |-> NoResponse]

\* get_async / post_async up to enqueue_async_request's critical section:
\* under async_mutex_, add the easy handle to the multi handle and to the map
Enqueue(r) ==
    /\ h_pc["caller"] = "idle"
    /\ transfer[r].st = "new"
    /\ async_mutex_ = "free"
    /\ transfer' = [transfer EXCEPT ![r].st = "active"]
    /\ pending_async_requests_' = pending_async_requests_ \cup {r}
    /\ h_pc' = [h_pc EXCEPT !["caller"] = "ensure_worker"]
    /\ UNCHANGED <<async_mutex_, async_running_, completed, next_entry, worker_poll, calls, got>>
    /\ UNCHANGED <<wsVars, moVars, obVars, faVars, feedVars, amtVars, hbVars>>

\* ensure_async_worker: compare_exchange_strong(false -> true) starts the worker once
ensure_async_worker ==
    /\ h_pc["caller"] = "ensure_worker"
    /\ IF ~async_running_
       THEN /\ async_running_' = TRUE
            /\ h_pc' = [h_pc EXCEPT !["caller"] = "idle", !["worker"] = "loop"]
       ELSE /\ h_pc' = [h_pc EXCEPT !["caller"] = "idle"]
            /\ UNCHANGED async_running_
    /\ UNCHANGED <<transfer, pending_async_requests_, async_mutex_, completed, next_entry,
                   worker_poll, calls, got>>
    /\ UNCHANGED <<wsVars, moVars, obVars, faVars, feedVars, amtVars, hbVars>>

\* the network ends a transfer (answer received, connection failed, or CURLOPT_TIMEOUT_MS hit)
TransferEnds(r) ==
    /\ transfer[r].st = "active"
    /\ \E res \in TransferResults : transfer' = [transfer EXCEPT ![r] = [st |-> "ended", res |-> res]]
    /\ UNCHANGED <<pending_async_requests_, async_mutex_, async_running_, h_pc, completed,
                   next_entry, worker_poll, calls, got>>
    /\ UNCHANGED <<wsVars, moVars, obVars, faVars, feedVars, amtVars, hbVars>>

\* the caller calls poll_async(timeout)
poll_async ==
    /\ h_pc["caller"] = "idle"
    /\ h_pc' = [h_pc EXCEPT !["caller"] = "poll_lock"]
    /\ UNCHANGED <<transfer, pending_async_requests_, async_mutex_, async_running_, completed,
                   next_entry, worker_poll, calls, got>>
    /\ UNCHANGED <<wsVars, moVars, obVars, faVars, feedVars, amtVars, hbVars>>

\* worker loop: while (async_running_) { if (pending_async() == 0) { wait 1 ms; continue; } ... }
\* pending_async() takes async_mutex_ for the size() call
WorkerLoop ==
    /\ h_pc["worker"] = "loop"
    /\ async_running_
    /\ async_mutex_ = "free"
    /\ IF pending_async_requests_ = {}
       THEN UNCHANGED <<h_pc, worker_poll>>
       ELSE /\ h_pc' = [h_pc EXCEPT !["worker"] = "poll_lock"]
            /\ worker_poll' = 1
    /\ UNCHANGED <<transfer, pending_async_requests_, async_mutex_, async_running_, completed,
                   next_entry, calls, got>>
    /\ UNCHANGED <<wsVars, moVars, obVars, faVars, feedVars, amtVars, hbVars>>

\* poll_async_internal: lock async_mutex_, curl_multi_poll + curl_multi_perform:
\* every transfer that has ended gets its CURLMSG_DONE message queued
PollPerform(t) ==
    /\ h_pc[t] = "poll_lock"
    /\ async_mutex_ = "free"
    /\ async_mutex_' = t
    /\ transfer' = [r \in Requests |->
                      IF transfer[r].st = "ended" THEN [transfer[r] EXCEPT !.st = "msg"]
                      ELSE transfer[r]]
    /\ completed' = [completed EXCEPT ![t] = <<>>]
    /\ next_entry' = [next_entry EXCEPT ![t] = 1]
    /\ h_pc' = [h_pc EXCEPT ![t] = "poll_read"]
    /\ UNCHANGED <<pending_async_requests_, async_running_, worker_poll, calls, got>>
    /\ UNCHANGED <<wsVars, moVars, obVars, faVars, feedVars, amtVars, hbVars>>

\* mutant of emplace_back: the vector is overwritten by the new entry
emplace_back_overwrites(vec, entry) == <<entry>>

\* completed.emplace_back(request->callback, std::move(response))
emplace_back(vec, entry) == Append(vec, entry)

\* variant of erase: the map entry of a completed request stays in the map
erase_keeps_entry(map, r) == map

\* pending_async_requests_.erase(it)
erase(map, r) == map \ {r}

\* pending_async(): pending_async_requests_.size(), read under async_mutex_
pending_async == Cardinality(pending_async_requests_)

\* one iteration of the curl_multi_info_read loop: the message's request is looked up,
\* its response built and appended to `completed`, its handle removed, its map entry erased
PollRead(t, r) ==
    /\ h_pc[t] = "poll_read"
    /\ async_mutex_ = t
    /\ transfer[r].st = "msg"
    /\ transfer' = [transfer EXCEPT ![r].st = "removed"]
    /\ IF r \in pending_async_requests_
       THEN /\ completed' = [completed EXCEPT ![t] =
                               emplace_back(@, [req |-> r,
                                                response |-> response_of(transfer[r].res)])]
            /\ pending_async_requests_' = erase(pending_async_requests_, r)
       ELSE UNCHANGED <<completed, pending_async_requests_>>
    /\ UNCHANGED <<async_mutex_, async_running_, h_pc, next_entry, worker_poll, calls, got>>
    /\ UNCHANGED <<wsVars, moVars, obVars, faVars, feedVars, amtVars, hbVars>>

\* curl_multi_info_read returns NULL: the lock_guard's scope ends
PollUnlock(t) ==
    /\ h_pc[t] = "poll_read"
    /\ async_mutex_ = t
    /\ \A r \in Requests : transfer[r].st # "msg"
    /\ async_mutex_' = "free"
    /\ h_pc' = [h_pc EXCEPT ![t] = "poll_deliver"]
    /\ UNCHANGED <<transfer, pending_async_requests_, async_running_, completed, next_entry,
                   worker_poll, calls, got>>
    /\ UNCHANGED <<wsVars, moVars, obVars, faVars, feedVars, amtVars, hbVars>>

\* the delivery loop, outside the lock: entry.first(entry.second) for the next entry
PollDeliver(t) ==
    /\ h_pc[t] = "poll_deliver"
    /\ next_entry[t] <= Len(completed[t])
    /\ LET entry == completed[t][next_entry[t]]
       IN /\ calls' = [calls EXCEPT ![entry.req] = @ + 1]
          /\ got' = [got EXCEPT ![entry.req] = entry.response]
    /\ next_entry' = [next_entry EXCEPT ![t] = @ + 1]
    /\ UNCHANGED <<transfer, pending_async_requests_, async_mutex_, async_running_, h_pc,
                   completed, worker_poll>>
    /\ UNCHANGED <<wsVars, moVars, obVars, faVars, feedVars, amtVars, hbVars>>

\* poll_async_internal returns completed.size(); the worker polls a second time (with a
\* timeout) when its first poll completed nothing, then loops
PollReturn(t) ==
    /\ h_pc[t] = "poll_deliver"
    /\ next_entry[t] > Len(completed[t])
    /\ IF t = "caller"
       THEN /\ h_pc' = [h_pc EXCEPT ![t] = "idle"]
            /\ UNCHANGED worker_poll
       ELSE IF worker_poll = 1 /\ Len(completed[t]) = 0
       THEN /\ h_pc' = [h_pc EXCEPT ![t] = "poll_lock"]
            /\ worker_poll' = 2
       ELSE /\ h_pc' = [h_pc EXCEPT ![t] = "loop"]
            /\ worker_poll' = 1
    /\ UNCHANGED <<transfer, pending_async_requests_, async_mutex_, async_running_, completed,
                   next_entry, calls, got>>
    /\ UNCHANGED <<wsVars, moVars, obVars, faVars, feedVars, amtVars, hbVars>>

CallerStep ==
    \/ ensure_async_worker
    \/ PollPerform("caller")
    \/ \E r \in Requests : PollRead("caller", r)
    \/ PollUnlock("caller")
    \/ PollDeliver("caller")
    \/ PollReturn("caller")

WorkerStep ==
    \/ WorkerLoop
    \/ PollPerform("worker")
    \/ \E r \in Requests : PollRead("worker", r)
    \/ PollUnlock("worker")
    \/ PollDeliver("worker")
    \/ PollReturn("worker")

HttpNext ==
    \/ \E r \in Requests : Enqueue(r)
    \/ \E r \in Requests : TransferEnds(r)
    \/ poll_async
    \/ CallerStep
    \/ WorkerStep

(***************************************************************************)
(* WebSocketClient                                                         *)
(***************************************************************************)

\* stop() gives up waiting after this many 10 ms ticks (websocket_client.cpp:167)
StopWaitTicks == 100

WsInit ==
    /\ state_ = "DISCONNECTED"
    /\ running_ = FALSE
    /\ should_stop_ = FALSE
    /\ ws_started = FALSE
    /\ run_pc = "start"
    /\ stop_pc = "idle"
    /\ wait_count = 0

\* connect(): returns at once when already connected or connecting, otherwise
\* installs the handler, stores CONNECTING and starts the socket thread.
WsConnect ==
    /\ run_pc = "start"
    /\ IF state_ \in {"CONNECTED", "CONNECTING"}
       THEN UNCHANGED <<state_, ws_started>>
       ELSE /\ state_' = "CONNECTING"
            /\ ws_started' = TRUE
    /\ run_pc' = "run_enter"
    /\ UNCHANGED <<running_, should_stop_, stop_pc, wait_count>>
    /\ UNCHANGED <<moVars, httpVars, obVars, faVars, feedVars, amtVars, hbVars>>

\* The socket thread delivers Open: state_ becomes CONNECTED, on_connect_cb_ runs.
WsOnOpen ==
    /\ ws_started
    /\ state_' = "CONNECTED"
    /\ UNCHANGED <<running_, should_stop_, ws_started, run_pc, stop_pc, wait_count>>
    /\ UNCHANGED <<moVars, httpVars, obVars, faVars, feedVars, amtVars, hbVars>>

\* The socket thread delivers Close or Error: state_ becomes DISCONNECTED.
WsOnCloseOrError ==
    /\ ws_started
    /\ state_' = "DISCONNECTED"
    /\ UNCHANGED <<running_, should_stop_, ws_started, run_pc, stop_pc, wait_count>>
    /\ UNCHANGED <<moVars, httpVars, obVars, faVars, feedVars, amtVars, hbVars>>

\* run(), first statement: running_.store(true)
RunStoreRunning ==
    /\ run_pc = "run_enter"
    /\ running_' = TRUE
    /\ run_pc' = "run_reset"
    /\ UNCHANGED <<state_, should_stop_, ws_started, stop_pc, wait_count>>
    /\ UNCHANGED <<moVars, httpVars, obVars, faVars, feedVars, amtVars, hbVars>>

\* run(), second statement: should_stop_.store(false)
RunResetStop ==
    /\ run_pc = "run_reset"
    /\ should_stop_' = FALSE
    /\ run_pc' = "run_loop"
    /\ UNCHANGED <<state_, running_, ws_started, stop_pc, wait_count>>
    /\ UNCHANGED <<moVars, httpVars, obVars, faVars, feedVars, amtVars, hbVars>>

\* run(), loop condition: while (!should_stop_.load())
RunLoop ==
    /\ run_pc = "run_loop"
    /\ run_pc' = IF should_stop_ THEN "run_exit" ELSE "run_sleep"
    /\ UNCHANGED <<state_, running_, should_stop_, ws_started, stop_pc, wait_count>>
    /\ UNCHANGED <<moVars, httpVars, obVars, faVars, feedVars, amtVars, hbVars>>

\* run(), loop body: sleep_for(100 ms), then test the flag again
RunSleep ==
    /\ run_pc = "run_sleep"
    /\ run_pc' = "run_loop"
    /\ UNCHANGED <<state_, running_, should_stop_, ws_started, stop_pc, wait_count>>
    /\ UNCHANGED <<moVars, httpVars, obVars, faVars, feedVars, amtVars, hbVars>>

\* run(), after the loop: running_.store(false), return
RunExit ==
    /\ run_pc = "run_exit"
    /\ running_' = FALSE
    /\ run_pc' = "returned"
    /\ UNCHANGED <<state_, should_stop_, ws_started, stop_pc, wait_count>>
    /\ UNCHANGED <<moVars, httpVars, obVars, faVars, feedVars, amtVars, hbVars>>

\* stop(), first statement: should_stop_.store(true)
StopStore ==
    /\ stop_pc = "idle"
    /\ should_stop_' = TRUE
    /\ stop_pc' = "disc_closing"
    /\ UNCHANGED <<state_, running_, ws_started, run_pc, wait_count>>
    /\ UNCHANGED <<moVars, httpVars, obVars, faVars, feedVars, amtVars, hbVars>>

\* disconnect(), first statement: state_.store(CLOSING)
DisconnectClosing ==
    /\ stop_pc = "disc_closing"
    /\ state_' = "CLOSING"
    /\ stop_pc' = "disc_stop"
    /\ UNCHANGED <<running_, should_stop_, ws_started, run_pc, wait_count>>
    /\ UNCHANGED <<moVars, httpVars, obVars, faVars, feedVars, amtVars, hbVars>>

\* disconnect(): ws_.stop() joins the socket thread; no event is delivered after it
DisconnectWsStop ==
    /\ stop_pc = "disc_stop"
    /\ ws_started' = FALSE
    /\ stop_pc' = "disc_done"
    /\ UNCHANGED <<state_, running_, should_stop_, run_pc, wait_count>>
    /\ UNCHANGED <<moVars, httpVars, obVars, faVars, feedVars, amtVars, hbVars>>

\* disconnect(), last statement: state_.store(DISCONNECTED)
DisconnectDone ==
    /\ stop_pc = "disc_done"
    /\ state_' = "DISCONNECTED"
    /\ stop_pc' = "wait"
    /\ UNCHANGED <<running_, should_stop_, ws_started, run_pc, wait_count>>
    /\ UNCHANGED <<moVars, httpVars, obVars, faVars, feedVars, amtVars, hbVars>>

\* stop(), wait loop: while (running_.load() && wait_count < 100) { sleep 10 ms; wait_count++ }
StopWait ==
    /\ stop_pc = "wait"
    /\ IF running_ /\ wait_count < StopWaitTicks
       THEN /\ wait_count' = wait_count + 1
            /\ UNCHANGED stop_pc
       ELSE /\ stop_pc' = "returned"
            /\ UNCHANGED wait_count
    /\ UNCHANGED <<state_, running_, should_stop_, ws_started, run_pc>>
    /\ UNCHANGED <<moVars, httpVars, obVars, faVars, feedVars, amtVars, hbVars>>

RunThread == WsConnect \/ RunStoreRunning \/ RunResetStop \/ RunLoop \/ RunSleep \/ RunExit

StopThread == StopStore \/ DisconnectClosing \/ DisconnectWsStop \/ DisconnectDone \/ StopWait

WsNext == RunThread \/ StopThread \/ WsOnOpen \/ WsOnCloseOrError

\* an exception leaves the pipeline: nothing of it runs again
Throw(s) == [s EXCEPT !.pc = "threw"]

\* http_.get_async / http_.post_async: the request is enqueued and the pipeline waits
issue(s, request, pc) == [s EXCEPT !.requests = Append(@, request), !.pc = pc]

\* finish_with_error: the first failure marks the state done and calls the callback
finish_with_error(s, message) ==
    IF s.done THEN s
    ELSE [s EXCEPT !.done = TRUE, !.cb = @ + 1, !.result = message, !.pc = "finished"]

\* submit_order: validate the fee, round the amounts, sign, build headers, POST /order
submit_order(s) ==
    LET fee_rate_bps == IF s.params.fee_rate_bps = "" THEN "0" ELSE s.params.fee_rate_bps
        check_fee == ~s.fee_rate_provided /\ s.fee_rate_bps > 0 /\ fee_rate_bps # "0"
    IN IF check_fee /\ stoi(fee_rate_bps) < 0
         THEN finish_with_error(s, "invalid fee rate")
       ELSE IF check_fee /\ stoi(fee_rate_bps) # s.fee_rate_bps
         THEN finish_with_error(s, "invalid fee rate")
       ELSE IF ~get_round_config_ok(s.tick_size)
         THEN Throw(s)
       ELSE IF s.l2_fails
         THEN finish_with_error(s, "l2 headers")
       ELSE issue(s, "POST /order", "wait_post")

\* resolve_fee_rate: use the caller's fee rate or GET /fee-rate
resolve_fee_rate(s) ==
    IF s.fee_rate_provided THEN submit_order(s)
    ELSE issue(s, "GET /fee-rate", "wait_fee_rate")

\* mutant of resolve_neg_risk: the caller's flag is ignored and the probe always sent
resolve_neg_risk_always_fetch(s) == issue(s, "GET /neg-risk", "wait_neg_risk")

\* resolve_neg_risk: use the caller's flag or GET /neg-risk
resolve_neg_risk(s) ==
    IF s.params.neg_risk # "none"
    THEN resolve_fee_rate([s EXCEPT !.neg_risk = (s.params.neg_risk = "true")])
    ELSE issue(s, "GET /neg-risk", "wait_neg_risk")

\* the price check shared by the three places that validate state->price
check_price_then(s, next) ==
    CASE price_valid(s.price, s.tick_size) = "throw" -> Throw(s)
      [] price_valid(s.price, s.tick_size) = "invalid" -> finish_with_error(s, "invalid price")
      [] OTHER -> next

\* resolve_price: use the caller's price (when > 0) or GET /book
resolve_price(s) ==
    IF s.params.price > 0
    THEN LET s1 == [s EXCEPT !.price = s.params.price]
         IN check_price_then(s1, resolve_neg_risk(s1))
    ELSE issue(s, "GET /book", "wait_book")

\* mutant of strict_no_fetch_entry: the neg_risk presence check is missing
strict_no_fetch_entry_no_neg_check(s) ==
    LET p == s.params
    IN IF p.tick_size = "none" \/ p.tick_size = ""
         THEN finish_with_error(s, "strict_no_fetch requires tick_size")
       ELSE IF p.price <= 0
         THEN finish_with_error(s, "strict_no_fetch requires price")
       ELSE IF ~p.fee_rate_bps_provided \/ p.fee_rate_bps = ""
         THEN finish_with_error(s, "strict_no_fetch requires fee_rate_bps")
       ELSE LET s1 == [s EXCEPT !.tick_size = p.tick_size, !.price = p.price,
                                !.neg_risk = (p.neg_risk = "true")]
            IN check_price_then(s1, submit_order(s1))

\* the strict_no_fetch branch of the entry: all four inputs must be present
strict_no_fetch_entry(s) ==
    LET p == s.params
    IN IF p.tick_size = "none" \/ p.tick_size = ""
         THEN finish_with_error(s, "strict_no_fetch requires tick_size")
       ELSE IF p.price <= 0
         THEN finish_with_error(s, "strict_no_fetch requires price")
       ELSE IF p.neg_risk = "none"
         THEN finish_with_error(s, "strict_no_fetch requires neg_risk")
       ELSE IF ~p.fee_rate_bps_provided \/ p.fee_rate_bps = ""
         THEN finish_with_error(s, "strict_no_fetch requires fee_rate_bps")
       ELSE LET s1 == [s EXCEPT !.tick_size = p.tick_size, !.price = p.price,
                                !.neg_risk = (p.neg_risk = "true")]
            IN check_price_then(s1, submit_order(s1))

\* create_and_post_market_order_v2_async, from the call to its return
create_and_post_market_order_v2_async(params, l2_fails) ==
    LET s == [MoIdle EXCEPT !.params = params, !.l2_fails = l2_fails,
                            !.fee_rate_provided = params.fee_rate_bps_provided]
    IN IF ~params.auth
         THEN [s EXCEPT !.cb = @ + 1, !.result = "Client not authenticated", !.pc = "finished"]
       ELSE IF params.strict_no_fetch
         THEN strict_no_fetch_entry(s)
       ELSE IF params.tick_size # "none" /\ params.tick_size # ""
         THEN resolve_price([s EXCEPT !.tick_size = params.tick_size])
       ELSE issue(s, "GET /tick-size", "wait_tick_size")

\* completion of GET /tick-size
on_tick_size(s, http_response) ==
    IF ~ok(http_response) THEN finish_with_error(s, "failed to fetch tick size")
    ELSE IF http_response.body = "malformed" THEN finish_with_error(s, "failed to parse tick size")
    ELSE LET min_tick_size == IF http_response.body = "nofield" THEN "0.01"
                              ELSE http_response.body
         IN resolve_price([s EXCEPT !.tick_size = min_tick_size])

\* completion of GET /book
on_book(s, http_response) ==
    IF ~ok(http_response) THEN finish_with_error(s, "no orderbook")
    ELSE IF http_response.body = "malformed" THEN finish_with_error(s, "no orderbook")
    ELSE LET book == http_response.book
             price == IF s.params.side = "BUY"
                      THEN calculate_buy_market_price(book.asks, s.params.amount,
                                                      s.params.order_type)
                      ELSE calculate_sell_market_price(book.bids, s.params.amount,
                                                       s.params.order_type)
         IN IF price = NoMatch THEN finish_with_error(s, "no match")
            ELSE LET s1 == [s EXCEPT !.price = price]
                 IN check_price_then(s1, resolve_neg_risk(s1))

\* completion of GET /neg-risk
on_neg_risk(s, http_response) ==
    IF ~ok(http_response) THEN finish_with_error(s, "failed to fetch neg risk")
    ELSE IF http_response.body = "malformed" THEN finish_with_error(s, "failed to parse neg risk")
    ELSE resolve_fee_rate([s EXCEPT !.neg_risk = (http_response.body = "true")])

\* completion of GET /fee-rate
on_fee_rate(s, http_response) ==
    IF ~ok(http_response) THEN finish_with_error(s, "failed to fetch fee rate")
    ELSE IF http_response.body = "malformed" THEN finish_with_error(s, "failed to parse fee rate")
    ELSE submit_order([s EXCEPT !.fee_rate_bps = stoi(http_response.body)])

\* completion of POST /order: the response is handed to the callback unless done
on_post(s, http_response) ==
    IF ~s.done
    THEN [s EXCEPT !.done = TRUE, !.cb = @ + 1, !.pc = "finished",
                   !.result = IF ok(http_response) /\ http_response.body = "success"
                              THEN "success" ELSE "order failed"]
    ELSE [s EXCEPT !.pc = "finished"]

\* the response of the request in flight is recorded with the step it ends
answered(s, http_response) == [s EXCEPT !.outcomes = Append(@, http_response)]

\* the synchronous call ends: by returning the signed order or by throwing `message`
sync_throw(s, message) == [s EXCEPT !.pc = "sync_threw", !.result = message]

\* calculate_market_price: GET /book, then the traversal of the side's levels
calculate_market_price(s, book_response) ==
    LET s1 == answered(issue(s, "GET /book", "sync"), book_response)
    IN IF ~ok(book_response) \/ book_response.body = "malformed"
         THEN sync_throw(s1, "no orderbook")
       ELSE LET book == book_response.book
                price == IF s.params.side = "BUY"
                         THEN calculate_buy_market_price(book.asks, s.params.amount,
                                                         s.params.order_type)
                         ELSE calculate_sell_market_price(book.bids, s.params.amount,
                                                          s.params.order_type)
            IN IF price = NoMatch THEN sync_throw(s1, "no match")
               ELSE [s1 EXCEPT !.price = price]

\* get_neg_risk: GET /neg-risk; any failure reads as "not neg-risk"
get_neg_risk(s, neg_response) ==
    LET s1 == answered(issue(s, "GET /neg-risk", "sync"), neg_response)
    IN [s1 EXCEPT !.neg_risk = ok(neg_response) /\ neg_response.body = "true"]

\* the tail of create_market_order_v2: price check, rounding config, fee check, signing
sync_finish(s) ==
    LET fee_rate_bps == IF s.params.fee_rate_bps = "" THEN "0" ELSE s.params.fee_rate_bps
        check_fee == ~s.params.fee_rate_bps_provided /\ s.fee_rate_bps > 0
                     /\ fee_rate_bps # "0"
    IN IF price_valid(s.price, s.tick_size) = "throw" THEN sync_throw(s, "stod")
       ELSE IF price_valid(s.price, s.tick_size) = "invalid" THEN sync_throw(s, "invalid price")
       ELSE IF ~get_round_config_ok(s.tick_size) THEN sync_throw(s, "unsupported tick size")
       ELSE IF check_fee /\ stoi(fee_rate_bps) # s.fee_rate_bps
         THEN sync_throw(s, "invalid fee rate")
       ELSE [s EXCEPT !.pc = "sync_returned", !.result = "signed"]

\* create_market_order_v2, from the call to its return or throw
create_market_order_v2(params, book_response, neg_response) ==
    LET p == params
        s == [MoIdle EXCEPT !.params = params, !.pc = "sync"]
    IN IF ~p.auth THEN sync_throw(s, "Client not authenticated")
       ELSE IF p.strict_no_fetch
       THEN IF p.tick_size = "none" \/ p.tick_size = ""
              THEN sync_throw(s, "strict_no_fetch requires tick_size")
            ELSE IF p.price <= 0
              THEN sync_throw(s, "strict_no_fetch requires price")
            ELSE IF p.neg_risk = "none"
              THEN sync_throw(s, "strict_no_fetch requires neg_risk")
            ELSE IF ~p.fee_rate_bps_provided \/ p.fee_rate_bps = ""
              THEN sync_throw(s, "strict_no_fetch requires fee_rate_bps")
            ELSE sync_finish([s EXCEPT !.tick_size = p.tick_size, !.price = p.price,
                                       !.neg_risk = (p.neg_risk = "true")])
       ELSE LET given == p.tick_size # "none" /\ p.tick_size # ""
            IN IF given /\ stod(p.tick_size) < 0 THEN sync_throw(s, "stod")
               ELSE IF given /\ stod(p.tick_size) < stod("0.01")
                 THEN sync_throw(s, "invalid tick size")
               ELSE LET s1 == [s EXCEPT !.tick_size = IF given THEN p.tick_size ELSE "0.01"]
                        s2 == IF p.price > 0 THEN [s1 EXCEPT !.price = p.price]
                              ELSE calculate_market_price(s1, book_response)
                    IN IF s2.pc = "sync_threw" THEN s2
                       ELSE LET s3 == IF p.neg_risk # "none"
                                      THEN [s2 EXCEPT !.neg_risk = (p.neg_risk = "true")]
                                      ELSE get_neg_risk(s2, neg_response)
                                s4 == IF ~p.fee_rate_bps_provided
                                      THEN [s3 EXCEPT !.fee_rate_bps = DefaultMarketFee]
                                      ELSE s3
                            IN sync_finish(s4)

MoStartAsync ==
    /\ mo.pc = "idle"
    /\ \E params \in MoParams, l2_fails \in BOOLEAN :
          mo' = create_and_post_market_order_v2_async(params, l2_fails)
    /\ UNCHANGED <<wsVars, httpVars, obVars, faVars, feedVars, amtVars, hbVars>>

MoCallSync ==
    /\ mo.pc = "idle"
    /\ \E params \in MoParams, b \in BookResponses, n \in NegRiskResponses :
          mo' = create_market_order_v2(params, b, n)
    /\ UNCHANGED <<wsVars, httpVars, obVars, faVars, feedVars, amtVars, hbVars>>

MoOnTickSize ==
    /\ mo.pc = "wait_tick_size"
    /\ \E r \in TickResponses : mo' = on_tick_size(answered(mo, r), r)
    /\ UNCHANGED <<wsVars, httpVars, obVars, faVars, feedVars, amtVars, hbVars>>

MoOnBook ==
    /\ mo.pc = "wait_book"
    /\ \E r \in BookResponses : mo' = on_book(answered(mo, r), r)
    /\ UNCHANGED <<wsVars, httpVars, obVars, faVars, feedVars, amtVars, hbVars>>

MoOnNegRisk ==
    /\ mo.pc = "wait_neg_risk"
    /\ \E r \in NegRiskResponses : mo' = on_neg_risk(answered(mo, r), r)
    /\ UNCHANGED <<wsVars, httpVars, obVars, faVars, feedVars, amtVars, hbVars>>

MoOnFeeRate ==
    /\ mo.pc = "wait_fee_rate"
    /\ \E r \in FeeResponses : mo' = on_fee_rate(answered(mo, r), r)
    /\ UNCHANGED <<wsVars, httpVars, obVars, faVars, feedVars, amtVars, hbVars>>

MoOnPost ==
    /\ mo.pc = "wait_post"
    /\ \E r \in PostResponses : mo' = on_post(answered(mo, r), r)
    /\ UNCHANGED <<wsVars, httpVars, obVars, faVars, feedVars, amtVars, hbVars>>

MoNext == MoStartAsync \/ MoCallSync \/ MoOnTickSize \/ MoOnBook \/ MoOnNegRisk \/ MoOnFeeRate \/ MoOnPost

(***************************************************************************)
(* OrderbookManager                                                        *)
(* Prices are integers in hundredths: 0.98 is 98 and 1.0 is 100.           *)
(* Two threads use one manager: the socket thread, on which ws_ runs the   *)
(* open and message callbacks, and a caller thread.  A critical section    *)
(* that calls nothing outside the manager is one step; statements made     *)
(* without a lock are one step each.                                       *)
(***************************************************************************)

MaxUpdates == 2

MaxOpens == 2

MaxCallerOps == 3

\* Config::trigger_combined = 0.98
trigger_combined == 98

Conditions == {"c1"}

\* y1 and n1 are the outcome tokens of c1; zz is a token of no market
Tokens == {"y1", "n1", "zz"}

\* the tokens the caller passes to unsubscribe() and get_orderbook()
CallerTokens == {"y1"}

\* the MarketState values passed to subscribe()
MarketInputs ==
    { [condition_id |-> "c1", token_yes |-> "y1", token_no |-> "n1",
       best_ask_yes |-> a[1], best_ask_no |-> a[2]] : a \in {<<0, 0>>, <<40, 45>>} }

\* the ask prices of an incoming book, in message order
BookInputs == {<<>>, <<0>>, <<49>>, <<49, 48>>}

\* the book messages the socket delivers: any book for a token of c1, one for zz
MessageInputs ==
    { [asset_id |-> t, asks |-> a] : t \in {"y1", "n1"}, a \in BookInputs }
        \cup { [asset_id |-> "zz", asks |-> <<49>>] }

RECURSIVE min_ask(_, _, _)
min_ask(asks, i, m) ==
    IF i > Len(asks) THEN m
    ELSE min_ask(asks, i + 1, IF asks[i] < m THEN asks[i] ELSE m)

\* Orderbook::best_ask(): 1.0 for an empty side, else the lowest ask price
best_ask(asks) == IF asks = <<>> THEN 100 ELSE min_ask(asks, 1, asks[1])

NoBook == [present |-> FALSE, asks |-> <<>>]

NoMarket ==
    [present |-> FALSE, token_yes |-> "", token_no |-> "",
     best_ask_yes |-> 0, best_ask_no |-> 0]

\* LiveMarketState(const MarketState &m): the best asks are copied from m
LiveMarketState(m) ==
    [present |-> TRUE, token_yes |-> m.token_yes, token_no |-> m.token_no,
     best_ask_yes |-> m.best_ask_yes, best_ask_no |-> m.best_ask_no]

\* LiveMarketState::combined()
combined(market) == market.best_ask_yes + market.best_ask_no

\* mutant of can_lock: shared owners do not keep an exclusive owner out
can_lock_despite_readers(mutex) == mutex.writer = "none"

\* std::unique_lock<std::shared_mutex> can be taken
can_lock(mutex) == mutex.writer = "none" /\ mutex.readers = {}

\* std::shared_lock<std::shared_mutex> can be taken
can_lock_shared(mutex) == mutex.writer = "none"

lock_shared(mutex, t) == [mutex EXCEPT !.readers = @ \cup {t}]

unlock_shared(mutex, t) == [mutex EXCEPT !.readers = @ \ {t}]

\* positions of the socket thread inside handle_orderbook_update / send_subscribe_message
UpdatePcs == {"hu_store", "hu_lookup", "hu_market", "hu_cb", "hu_arb", "hu_arb_cb",
              "hu_return"}

OpenPcs == {"ssm_empty", "ssm_send", "ssm_return"}

\* positions at which the socket thread holds `const std::string &condition_id`, a
\* reference into token_to_condition_
RefPcs == {"hu_market", "hu_cb", "hu_arb", "hu_arb_cb"}

IdleUpdate ==
    [asset_id |-> "", asks |-> <<>>, condition_id |-> "none", ref_invalid |-> FALSE,
     interfered |-> FALSE, trace |-> <<>>, arb_calls |-> 0, arb_combined |-> 0,
     arb_market |-> <<0, 0>>]

IdleOpen == [n |-> 0, interfered |-> FALSE]

IdleArg == [market |-> CHOOSE m \in MarketInputs : m.best_ask_yes = 0,
            token_id |-> "", condition_id |-> "", book |-> NoBook]

\* a get_market result: the two best asks, with the number of writes the market record
\* had when the lock was taken and when each field was loaded, the record's pair when the
\* lock was taken, and the write count of the previous result
NoSnapshot == [n |-> 0, best_ask_yes |-> 0, best_ask_no |-> 0, locked_pair |-> <<0, 0>>,
               at_lock |-> 0, at_yes |-> 0, at_no |-> 0, previous |-> 0]

ObInit ==
    /\ subscribed_tokens_ = <<>>
    /\ token_to_condition_ = [t \in Tokens |-> "none"]
    /\ markets_ = [c \in Conditions |-> NoMarket]
    /\ orderbooks_ = [t \in Tokens |-> NoBook]
    /\ markets_mutex_ = [writer |-> "none", readers |-> {}]
    /\ total_updates_ = 0
    /\ arb_opportunities_ = 0
    /\ s_pc = "idle"
    /\ upd = IdleUpdate
    /\ opened = IdleOpen
    /\ joins = <<>>
    /\ c_pc = "idle"
    /\ c_arg = IdleArg
    /\ caller_ops = 0
    /\ snap = NoSnapshot
    /\ writes = [c \in Conditions |-> 0]

\* positions of the caller thread inside subscribe, unsubscribe and unsubscribe_all
CallerWritePcs ==
    {"sub_markets", "sub_map_yes", "sub_map_no", "sub_push_yes", "sub_push_no",
     "unsub_list", "unsub_book", "ua_list", "ua_books", "ua_markets", "ua_map"}

\* bookkeeping of a step of subscribe, unsubscribe or unsubscribe_all: the update or the
\* open the socket thread is handling at that moment overlaps a writing caller operation
overlapped(u, pcs) == IF s_pc \in pcs THEN [u EXCEPT !.interfered = TRUE] ELSE u

\* frame of a caller-thread step that touches none of the socket thread's state
CallerFrame ==
    /\ UNCHANGED <<total_updates_, arb_opportunities_, s_pc, joins>>
    /\ UNCHANGED <<wsVars, moVars, httpVars, faVars, feedVars, amtVars, hbVars>>

\* ---- caller thread -------------------------------------------------------

\* the caller calls subscribe(market)
subscribe(m) ==
    /\ c_pc = "idle"
    /\ caller_ops < MaxCallerOps
    /\ caller_ops' = caller_ops + 1
    /\ c_arg' = [IdleArg EXCEPT !.market = m]
    /\ c_pc' = "sub_markets"
    /\ upd' = overlapped(upd, UpdatePcs)
    /\ opened' = overlapped(opened, OpenPcs)
    /\ UNCHANGED <<subscribed_tokens_, token_to_condition_, markets_, orderbooks_,
                   markets_mutex_, snap, writes>>
    /\ CallerFrame

\* { unique_lock(markets_mutex_); markets_[condition_id] = make_unique<LiveMarketState>(market); }
SubscribeMarkets ==
    /\ c_pc = "sub_markets"
    /\ can_lock(markets_mutex_)
    /\ LET c == c_arg.market.condition_id
       IN /\ markets_' = [markets_ EXCEPT ![c] = LiveMarketState(c_arg.market)]
          /\ writes' = [writes EXCEPT ![c] = @ + 1]
    /\ upd' = overlapped(upd, UpdatePcs)
    /\ opened' = overlapped(opened, OpenPcs)
    /\ c_pc' = "sub_map_yes"
    /\ UNCHANGED <<subscribed_tokens_, token_to_condition_, orderbooks_, markets_mutex_,
                   c_arg, caller_ops, snap>>
    /\ CallerFrame

\* token_to_condition_[token] = condition_id, no lock held; a socket thread that holds a
\* reference to the assigned string reads it while it is written
map_token(token, next) ==
    /\ token_to_condition_' = [token_to_condition_ EXCEPT ![token] = c_arg.market.condition_id]
    /\ upd' = [overlapped(upd, UpdatePcs) EXCEPT
                 !.ref_invalid = @ \/ (s_pc \in RefPcs /\ upd.asset_id = token
                                       /\ token_to_condition_[token] # "none")]
    /\ opened' = overlapped(opened, OpenPcs)
    /\ c_pc' = next
    /\ UNCHANGED <<subscribed_tokens_, markets_, orderbooks_, markets_mutex_, c_arg,
                   caller_ops, snap, writes>>
    /\ CallerFrame

SubscribeMapYes ==
    /\ c_pc = "sub_map_yes"
    /\ map_token(c_arg.market.token_yes, "sub_map_no")

SubscribeMapNo ==
    /\ c_pc = "sub_map_no"
    /\ map_token(c_arg.market.token_no, "sub_push_yes")

\* subscribed_tokens_.push_back(token), no lock held
push_token(token, next) ==
    /\ subscribed_tokens_' = Append(subscribed_tokens_, token)
    /\ upd' = overlapped(upd, UpdatePcs)
    /\ opened' = overlapped(opened, OpenPcs)
    /\ c_pc' = next
    /\ c_arg' = IF next = "idle" THEN IdleArg ELSE c_arg
    /\ UNCHANGED <<token_to_condition_, markets_, orderbooks_, markets_mutex_,
                   caller_ops, snap, writes>>
    /\ CallerFrame

SubscribePushYes ==
    /\ c_pc = "sub_push_yes"
    /\ push_token(c_arg.market.token_yes, "sub_push_no")

SubscribePushNo ==
    /\ c_pc = "sub_push_no"
    /\ push_token(c_arg.market.token_no, "idle")

\* the caller calls unsubscribe(token_id)
unsubscribe(token) ==
    /\ c_pc = "idle"
    /\ caller_ops < MaxCallerOps
    /\ caller_ops' = caller_ops + 1
    /\ c_arg' = [IdleArg EXCEPT !.token_id = token]
    /\ c_pc' = "unsub_list"
    /\ upd' = overlapped(upd, UpdatePcs)
    /\ opened' = overlapped(opened, OpenPcs)
    /\ UNCHANGED <<subscribed_tokens_, token_to_condition_, markets_, orderbooks_,
                   markets_mutex_, snap, writes>>
    /\ CallerFrame

RECURSIVE erase_first(_, _)
\* std::find + erase: the first element equal to token is removed
erase_first(tokens, token) ==
    IF tokens = <<>> THEN <<>>
    ELSE IF Head(tokens) = token THEN Tail(tokens)
    ELSE <<Head(tokens)>> \o erase_first(Tail(tokens), token)

\* it = std::find(subscribed_tokens_...); subscribed_tokens_.erase(it), no lock held
UnsubscribeList ==
    /\ c_pc = "unsub_list"
    /\ subscribed_tokens_' = erase_first(subscribed_tokens_, c_arg.token_id)
    /\ upd' = overlapped(upd, UpdatePcs)
    /\ opened' = overlapped(opened, OpenPcs)
    /\ c_pc' = "unsub_book"
    /\ UNCHANGED <<token_to_condition_, markets_, orderbooks_, markets_mutex_, c_arg,
                   caller_ops, snap, writes>>
    /\ CallerFrame

\* unique_lock(orderbooks_mutex_); orderbooks_.erase(token_id)
UnsubscribeBook ==
    /\ c_pc = "unsub_book"
    /\ orderbooks_' = [orderbooks_ EXCEPT ![c_arg.token_id] = NoBook]
    /\ upd' = overlapped(upd, UpdatePcs)
    /\ opened' = overlapped(opened, OpenPcs)
    /\ c_pc' = "idle"
    /\ c_arg' = IdleArg
    /\ UNCHANGED <<subscribed_tokens_, token_to_condition_, markets_, markets_mutex_,
                   caller_ops, snap, writes>>
    /\ CallerFrame

\* the caller calls unsubscribe_all()
unsubscribe_all ==
    /\ c_pc = "idle"
    /\ caller_ops < MaxCallerOps
    /\ caller_ops' = caller_ops + 1
    /\ c_pc' = "ua_list"
    /\ c_arg' = IdleArg
    /\ upd' = overlapped(upd, UpdatePcs)
    /\ opened' = overlapped(opened, OpenPcs)
    /\ UNCHANGED <<subscribed_tokens_, token_to_condition_, markets_, orderbooks_,
                   markets_mutex_, snap, writes>>
    /\ CallerFrame

\* subscribed_tokens_.clear(), no lock held
UnsubscribeAllList ==
    /\ c_pc = "ua_list"
    /\ subscribed_tokens_' = <<>>
    /\ upd' = overlapped(upd, UpdatePcs)
    /\ opened' = overlapped(opened, OpenPcs)
    /\ c_pc' = "ua_books"
    /\ UNCHANGED <<token_to_condition_, markets_, orderbooks_, markets_mutex_, c_arg,
                   caller_ops, snap, writes>>
    /\ CallerFrame

\* { unique_lock(orderbooks_mutex_); orderbooks_.clear(); }
UnsubscribeAllBooks ==
    /\ c_pc = "ua_books"
    /\ orderbooks_' = [t \in Tokens |-> NoBook]
    /\ upd' = overlapped(upd, UpdatePcs)
    /\ opened' = overlapped(opened, OpenPcs)
    /\ c_pc' = "ua_markets"
    /\ UNCHANGED <<subscribed_tokens_, token_to_condition_, markets_, markets_mutex_, c_arg,
                   caller_ops, snap, writes>>
    /\ CallerFrame

\* { unique_lock(markets_mutex_); markets_.clear(); }
UnsubscribeAllMarkets ==
    /\ c_pc = "ua_markets"
    /\ can_lock(markets_mutex_)
    /\ markets_' = [c \in Conditions |-> NoMarket]
    /\ writes' = [c \in Conditions |-> IF markets_[c].present THEN writes[c] + 1 ELSE writes[c]]
    /\ upd' = overlapped(upd, UpdatePcs)
    /\ opened' = overlapped(opened, OpenPcs)
    /\ c_pc' = "ua_map"
    /\ UNCHANGED <<subscribed_tokens_, token_to_condition_, orderbooks_, markets_mutex_,
                   c_arg, caller_ops, snap>>
    /\ CallerFrame

\* token_to_condition_.clear(), no lock held: the nodes are freed, and with them the
\* string a socket thread's condition_id refers to
UnsubscribeAllMap ==
    /\ c_pc = "ua_map"
    /\ token_to_condition_' = [t \in Tokens |-> "none"]
    /\ upd' = [overlapped(upd, UpdatePcs) EXCEPT !.ref_invalid = @ \/ s_pc \in RefPcs]
    /\ opened' = overlapped(opened, OpenPcs)
    /\ c_pc' = "idle"
    /\ UNCHANGED <<subscribed_tokens_, markets_, orderbooks_, markets_mutex_, c_arg,
                   caller_ops, snap, writes>>
    /\ CallerFrame

\* get_orderbook(token_id): shared_lock(orderbooks_mutex_); a copy of the book or nullopt
get_orderbook(token) ==
    /\ c_pc = "idle"
    /\ caller_ops < MaxCallerOps
    /\ caller_ops' = caller_ops + 1
    /\ c_arg' = [IdleArg EXCEPT !.token_id = token, !.book = orderbooks_[token]]
    /\ UNCHANGED <<subscribed_tokens_, token_to_condition_, markets_, orderbooks_,
                   markets_mutex_, upd, opened, c_pc, snap, writes>>
    /\ CallerFrame

\* the caller calls get_market(condition_id)
get_market(c) ==
    /\ c_pc = "idle"
    /\ caller_ops < MaxCallerOps
    /\ caller_ops' = caller_ops + 1
    /\ c_arg' = [IdleArg EXCEPT !.condition_id = c]
    /\ c_pc' = "gm_lock"
    /\ UNCHANGED <<subscribed_tokens_, token_to_condition_, markets_, orderbooks_,
                   markets_mutex_, upd, opened, snap, writes>>
    /\ CallerFrame

\* shared_lock(markets_mutex_); markets_.find(condition_id); a condition that is not in
\* the map gives MarketState{}, whose best asks are 0
GetMarketLock ==
    /\ c_pc = "gm_lock"
    /\ can_lock_shared(markets_mutex_)
    /\ IF markets_[c_arg.condition_id].present
       THEN /\ markets_mutex_' = lock_shared(markets_mutex_, "caller")
            /\ c_pc' = "gm_yes"
            /\ snap' = [snap EXCEPT !.at_lock = writes[c_arg.condition_id],
                                    !.locked_pair = <<markets_[c_arg.condition_id].best_ask_yes,
                                                      markets_[c_arg.condition_id].best_ask_no>>,
                                    !.previous = snap.at_lock]
       ELSE /\ snap' = [n |-> snap.n + 1, best_ask_yes |-> 0, best_ask_no |-> 0,
                        locked_pair |-> <<0, 0>>,
                        at_lock |-> writes[c_arg.condition_id],
                        at_yes |-> writes[c_arg.condition_id],
                        at_no |-> writes[c_arg.condition_id],
                        previous |-> snap.at_lock]
            /\ c_pc' = "idle"
            /\ UNCHANGED markets_mutex_
    /\ UNCHANGED <<subscribed_tokens_, token_to_condition_, markets_, orderbooks_, upd, opened,
                   c_arg, caller_ops, writes>>
    /\ CallerFrame

\* state.best_ask_yes = live->best_ask_yes.load()
GetMarketLoadYes ==
    /\ c_pc = "gm_yes"
    /\ snap' = [snap EXCEPT !.best_ask_yes = markets_[c_arg.condition_id].best_ask_yes,
                            !.at_yes = writes[c_arg.condition_id]]
    /\ c_pc' = "gm_no"
    /\ UNCHANGED <<subscribed_tokens_, token_to_condition_, markets_, orderbooks_,
                   markets_mutex_, upd, opened, c_arg, caller_ops, writes>>
    /\ CallerFrame

\* state.best_ask_no = live->best_ask_no.load(); return state; the shared lock is released
GetMarketLoadNo ==
    /\ c_pc = "gm_no"
    /\ snap' = [snap EXCEPT !.n = @ + 1,
                            !.best_ask_no = markets_[c_arg.condition_id].best_ask_no,
                            !.at_no = writes[c_arg.condition_id]]
    /\ markets_mutex_' = unlock_shared(markets_mutex_, "caller")
    /\ c_pc' = "idle"
    /\ UNCHANGED <<subscribed_tokens_, token_to_condition_, markets_, orderbooks_, upd, opened,
                   c_arg, caller_ops, writes>>
    /\ CallerFrame

CallerThread ==
    \/ \E m \in MarketInputs : subscribe(m)
    \/ SubscribeMarkets \/ SubscribeMapYes \/ SubscribeMapNo
    \/ SubscribePushYes \/ SubscribePushNo
    \/ \E token \in CallerTokens : unsubscribe(token)
    \/ UnsubscribeList \/ UnsubscribeBook
    \/ unsubscribe_all
    \/ UnsubscribeAllList \/ UnsubscribeAllBooks \/ UnsubscribeAllMarkets \/ UnsubscribeAllMap
    \/ \E token \in CallerTokens : get_orderbook(token)
    \/ \E c \in Conditions : get_market(c)
    \/ GetMarketLock \/ GetMarketLoadYes \/ GetMarketLoadNo

\* ---- socket thread -------------------------------------------------------

\* positions at which the caller thread's next statement writes subscribed_tokens_ /
\* token_to_condition_ with no lock held
ListWritePcs == {"sub_push_yes", "sub_push_no", "unsub_list", "ua_list"}

MapWritePcs == {"sub_map_yes", "sub_map_no", "ua_map"}

\* what an unlocked read of subscribed_tokens_ can give: its value, or, when the caller
\* thread is writing the vector at the same time, anything
read_subscribed_tokens ==
    IF c_pc \in ListWritePcs THEN {subscribed_tokens_, <<"garbage">>} ELSE {subscribed_tokens_}

\* what token_to_condition_.find(asset_id) can give: the entry, or, when the caller thread
\* is writing the map at the same time, possibly no entry
find_condition(token) ==
    IF c_pc \in MapWritePcs THEN {token_to_condition_[token], "none"}
    ELSE {token_to_condition_[token]}

\* what reading through the reference condition_id can give once its string was freed
\* or assigned by the caller thread
read_condition_id ==
    IF upd.ref_invalid THEN {upd.condition_id, "garbage"} ELSE {upd.condition_id}

\* markets_.find(c) != markets_.end()
market_found(c) == c \in Conditions /\ markets_[c].present

OtherWsVars == <<running_, should_stop_, ws_started, run_pc, stop_pc, wait_count>>

\* frame of a socket-thread step that touches none of the caller thread's state
SocketFrame ==
    /\ UNCHANGED <<c_pc, c_arg, caller_ops, snap>>
    /\ UNCHANGED <<OtherWsVars, moVars, httpVars, faVars, feedVars, amtVars, hbVars>>

\* Open handler of ws_: state_ = CONNECTED, then on_connect_cb_, which is
\* send_subscribe_message
OnOpen ==
    /\ s_pc = "idle"
    /\ state_ # "CONNECTED"
    /\ opened.n < MaxOpens
    /\ state_' = "CONNECTED"
    /\ opened' = [n |-> opened.n + 1, interfered |-> c_pc \in CallerWritePcs]
    /\ s_pc' = "ssm_empty"
    /\ UNCHANGED <<subscribed_tokens_, token_to_condition_, markets_, orderbooks_,
                   markets_mutex_, total_updates_, arb_opportunities_, upd, joins, writes>>
    /\ SocketFrame

\* Close / Error handler of ws_; the socket reconnects by itself afterwards
OnClose ==
    /\ s_pc = "idle"
    /\ state_ = "CONNECTED"
    /\ state_' = "DISCONNECTED"
    /\ UNCHANGED <<subscribed_tokens_, token_to_condition_, markets_, orderbooks_,
                   markets_mutex_, total_updates_, arb_opportunities_, s_pc, upd, opened,
                   joins, writes>>
    /\ SocketFrame

\* send_subscribe_message: if (subscribed_tokens_.empty()) return;
SendSubscribeEmpty ==
    /\ s_pc = "ssm_empty"
    /\ \E tokens \in read_subscribed_tokens :
          s_pc' = IF tokens = <<>> THEN "ssm_return" ELSE "ssm_send"
    /\ UNCHANGED <<subscribed_tokens_, token_to_condition_, markets_, orderbooks_,
                   markets_mutex_, total_updates_, arb_opportunities_, upd, opened, joins,
                   writes>>
    /\ UNCHANGED state_
    /\ SocketFrame

\* subscribe_msg["assets_ids"] = json::array(subscribed_tokens_); ws_.send(msg);
\* send() drops the message unless state_ is CONNECTED
SendSubscribeSend ==
    /\ s_pc = "ssm_send"
    /\ \E tokens \in read_subscribed_tokens :
          joins' = IF state_ = "CONNECTED" THEN Append(joins, tokens) ELSE joins
    /\ s_pc' = "ssm_return"
    /\ UNCHANGED <<subscribed_tokens_, token_to_condition_, markets_, orderbooks_,
                   markets_mutex_, total_updates_, arb_opportunities_, upd, opened, writes>>
    /\ UNCHANGED state_
    /\ SocketFrame

\* the Open handler returns to the socket's event loop
OpenReturn ==
    /\ s_pc = "ssm_return"
    /\ s_pc' = "idle"
    /\ joins' = <<>>
    /\ opened' = [opened EXCEPT !.interfered = FALSE]
    /\ UNCHANGED <<subscribed_tokens_, token_to_condition_, markets_, orderbooks_,
                   markets_mutex_, total_updates_, arb_opportunities_, upd, writes>>
    /\ UNCHANGED state_
    /\ SocketFrame

\* handle_message receives a book message for asset_id and calls handle_orderbook_update
handle_message(asset_id, asks) ==
    /\ s_pc = "idle"
    /\ state_ = "CONNECTED"
    /\ total_updates_ < MaxUpdates
    /\ upd' = [IdleUpdate EXCEPT !.asset_id = asset_id, !.asks = asks,
                                 !.interfered = c_pc \in CallerWritePcs]
    /\ s_pc' = "hu_store"
    /\ UNCHANGED <<subscribed_tokens_, token_to_condition_, markets_, orderbooks_,
                   markets_mutex_, total_updates_, arb_opportunities_, opened, joins, writes>>
    /\ UNCHANGED state_
    /\ SocketFrame

\* { unique_lock(orderbooks_mutex_); orderbooks_[asset_id] = book; } total_updates_++;
StoreBook ==
    /\ s_pc = "hu_store"
    /\ orderbooks_' = [orderbooks_ EXCEPT ![upd.asset_id] = [present |-> TRUE, asks |-> upd.asks]]
    /\ total_updates_' = total_updates_ + 1
    /\ upd' = [upd EXCEPT !.trace = Append(@, "store")]
    /\ s_pc' = "hu_lookup"
    /\ UNCHANGED <<subscribed_tokens_, token_to_condition_, markets_, markets_mutex_,
                   arb_opportunities_, opened, joins, writes>>
    /\ UNCHANGED state_
    /\ SocketFrame

\* cond_it = token_to_condition_.find(asset_id), no lock held; return if there is no entry;
\* const std::string &condition_id = cond_it->second;
LookupCondition ==
    /\ s_pc = "hu_lookup"
    /\ \E c \in find_condition(upd.asset_id) :
          IF c = "none"
          THEN /\ s_pc' = "hu_return"
               /\ UNCHANGED upd
          ELSE /\ upd' = [upd EXCEPT !.condition_id = c]
               /\ s_pc' = "hu_market"
    /\ UNCHANGED <<subscribed_tokens_, token_to_condition_, markets_, orderbooks_,
                   markets_mutex_, total_updates_, arb_opportunities_, opened, joins, writes>>
    /\ UNCHANGED state_
    /\ SocketFrame

\* mutant of store_best_ask: the market record is left as it was
store_best_ask_skipped(market, asset_id, asks) == market

\* the body of the market critical section: the best ask of the outcome whose token is
\* asset_id is stored (the sizes, last_update_ns and update_count are not modelled)
store_best_ask(market, asset_id, asks) ==
    IF asset_id = market.token_yes
    THEN [market EXCEPT !.best_ask_yes = best_ask(asks)]
    ELSE IF asset_id = market.token_no
    THEN [market EXCEPT !.best_ask_no = best_ask(asks)]
    ELSE market

\* { unique_lock(markets_mutex_); market_it = markets_.find(condition_id); ... }
UpdateMarket ==
    /\ s_pc = "hu_market"
    /\ can_lock(markets_mutex_)
    /\ \E c \in read_condition_id :
          IF market_found(c)
          THEN LET market == store_best_ask(markets_[c], upd.asset_id, upd.asks)
               IN /\ markets_' = [markets_ EXCEPT ![c] = market]
                  /\ writes' = [writes EXCEPT ![c] = @ + 1]
          ELSE UNCHANGED <<markets_, writes>>
    /\ upd' = [upd EXCEPT !.trace = Append(@, "market")]
    /\ s_pc' = "hu_cb"
    /\ UNCHANGED <<subscribed_tokens_, token_to_condition_, orderbooks_, markets_mutex_,
                   total_updates_, arb_opportunities_, opened, joins>>
    /\ UNCHANGED state_
    /\ SocketFrame

\* if (on_update_cb_) on_update_cb_(asset_id, book);  (a callback is registered)
UpdateCallback ==
    /\ s_pc = "hu_cb"
    /\ upd' = [upd EXCEPT !.trace = Append(@, "update_cb")]
    /\ s_pc' = "hu_arb"
    /\ UNCHANGED <<subscribed_tokens_, token_to_condition_, markets_, orderbooks_,
                   markets_mutex_, total_updates_, arb_opportunities_, opened, joins, writes>>
    /\ UNCHANGED state_
    /\ SocketFrame

\* mutant of is_arb: a combined price equal to the trigger counts as an opportunity
is_arb_at_trigger(ask_yes, ask_no, sum) == ask_yes > 0 /\ ask_no > 0 /\ sum <= trigger_combined

\* the two tests of check_arb_opportunity:
\* !(ask_yes <= 0 || ask_no <= 0) and combined < config_.trigger_combined
is_arb(ask_yes, ask_no, sum) == ask_yes > 0 /\ ask_no > 0 /\ sum < trigger_combined

\* check_arb_opportunity(condition_id) up to the callback: shared_lock(markets_mutex_),
\* markets_.find, the two tests, arb_opportunities_++
CheckArb ==
    /\ s_pc = "hu_arb"
    /\ can_lock_shared(markets_mutex_)
    /\ \E c \in read_condition_id :
          IF market_found(c) /\ is_arb(markets_[c].best_ask_yes, markets_[c].best_ask_no,
                                       combined(markets_[c]))
          THEN /\ markets_mutex_' = lock_shared(markets_mutex_, "socket")
               /\ arb_opportunities_' = arb_opportunities_ + 1
               /\ upd' = [upd EXCEPT !.trace = Append(@, "arb_check"),
                                     !.arb_combined = combined(markets_[c]),
                                     !.arb_market = <<markets_[c].best_ask_yes,
                                                      markets_[c].best_ask_no>>]
               /\ s_pc' = "hu_arb_cb"
          ELSE /\ upd' = [upd EXCEPT !.trace = Append(@, "arb_check")]
               /\ s_pc' = "hu_return"
               /\ UNCHANGED <<markets_mutex_, arb_opportunities_>>
    /\ UNCHANGED <<subscribed_tokens_, token_to_condition_, markets_, orderbooks_,
                   total_updates_, opened, joins, writes>>
    /\ UNCHANGED state_
    /\ SocketFrame

\* if (on_arb_cb_) on_arb_cb_(market, combined);  (a callback is registered); the shared
\* lock is released when check_arb_opportunity returns
ArbCallback ==
    /\ s_pc = "hu_arb_cb"
    /\ upd' = [upd EXCEPT !.trace = Append(@, "arb_cb"), !.arb_calls = @ + 1]
    /\ markets_mutex_' = unlock_shared(markets_mutex_, "socket")
    /\ s_pc' = "hu_return"
    /\ UNCHANGED <<subscribed_tokens_, token_to_condition_, markets_, orderbooks_,
                   total_updates_, arb_opportunities_, opened, joins, writes>>
    /\ UNCHANGED state_
    /\ SocketFrame

\* handle_orderbook_update and handle_message return to the socket's event loop
UpdateReturn ==
    /\ s_pc = "hu_return"
    /\ s_pc' = "idle"
    /\ upd' = IdleUpdate
    /\ UNCHANGED <<subscribed_tokens_, token_to_condition_, markets_, orderbooks_,
                   markets_mutex_, total_updates_, arb_opportunities_, opened, joins, writes>>
    /\ UNCHANGED state_
    /\ SocketFrame

SocketThread ==
    \/ OnOpen \/ OnClose
    \/ SendSubscribeEmpty \/ SendSubscribeSend \/ OpenReturn
    \/ \E msg \in MessageInputs : handle_message(msg.asset_id, msg.asks)
    \/ StoreBook \/ LookupCondition \/ UpdateMarket \/ UpdateCallback
    \/ CheckArb \/ ArbCallback \/ UpdateReturn

ObNext == CallerThread \/ SocketThread

\* the steps the socket thread takes by itself: everything but the loss of the connection
SocketProgress ==
    \/ OnOpen
    \/ SendSubscribeEmpty \/ SendSubscribeSend \/ OpenReturn
    \/ StoreBook \/ LookupCondition \/ UpdateMarket \/ UpdateCallback
    \/ CheckArb \/ ArbCallback \/ UpdateReturn

(***************************************************************************)
(* The ClobClient facade over the synchronous calls of HttpClient          *)
(***************************************************************************)
\* ---- the facade: one record per call of a ClobClient operation
NotAuthenticated == "Client not authenticated"

PostOnlyUnsupported == "post_only is only supported for GTC and GTD orders"

FaIdle ==
    [op |-> "none", authenticated |-> FALSE, arg |-> "", signed |-> <<>>,
     outcome |-> "none", result |-> <<>>]

FaInit ==
    /\ curl_ = FreshHandle
    /\ wire = <<>>
    /\ last_response = NoSyncResponse
    /\ fa = FaIdle

\* what a call did: the handle after it, the requests it sent, the last response, the
\* triples it had signed, and "returned" or the text of the exception it threw
Did(curl, requests, response, signed, outcome) ==
    [curl |-> curl, wire |-> requests, resp |-> response, signed |-> signed,
     outcome |-> outcome]

\* a call that throws before it sends anything
threw(what) == Did(curl_, <<>>, NoSyncResponse, <<>>, what)

\* the call's effects become the state
Finish(op, authenticated, arg, did, result) ==
    /\ curl_' = did.curl
    /\ wire' = did.wire
    /\ last_response' = did.resp
    /\ fa' = [op |-> op, authenticated |-> authenticated, arg |-> arg,
              signed |-> did.signed, outcome |-> did.outcome,
              result |-> IF did.outcome = "returned" THEN result ELSE <<>>]
    /\ UNCHANGED <<wsVars, moVars, httpVars, obVars, feedVars, amtVars, hbVars>>

\* get_l2_headers without its check of order_signer_ and api_creds_ (mutant)
get_l2_headers_unchecked(authenticated, method, path, body) ==
    [threw |-> FALSE, headers |-> L2(method, path, body)]

\* get_l2_headers: throws unless the client has a signer and credentials
get_l2_headers(authenticated, method, path, body) ==
    [threw |-> ~authenticated, headers |-> L2(method, path, body)]

\* the pattern of the signed synchronous calls: get_l2_headers, then http_.get or
\* http_.post with the headers it returned
signed_get(authenticated, sign_path, url, reply) ==
    LET l2 == get_l2_headers(authenticated, "GET", sign_path, "")
        t == http_get(curl_, url, l2.headers)
    IN IF l2.threw THEN threw(NotAuthenticated)
       ELSE Did(t.curl, <<Exchange(t.req, reply, perform(reply))>>, perform(reply), <<l2.headers>>, "returned")

signed_post(authenticated, method, path, sign_body, body, reply) ==
    LET l2 == get_l2_headers(authenticated, method, path, sign_body)
        t == http_post(curl_, path, body, l2.headers)
    IN IF l2.threw THEN threw(NotAuthenticated)
       ELSE Did(t.curl, <<Exchange(t.req, reply, perform(reply))>>, perform(reply), <<l2.headers>>, "returned")

bool(b) == IF b THEN "true" ELSE "false"

\* ---- plain transport calls (HttpClient is used directly as well), made by the caller
\* thread between its async calls; the call record names the HttpClient function
TransportPaths == {Path("/time")}

TransportBodies == {"", "{}"}

HttpGet ==
    /\ h_pc["caller"] = "idle"
    /\ \E path \in TransportPaths, reply \in SyncReplies :
          LET t == http_get(curl_, path, NoHeaders)
          IN /\ curl_' = t.curl /\ wire' = <<Exchange(t.req, reply, perform(reply))>> /\ last_response' = perform(reply)
    /\ fa' = [FaIdle EXCEPT !.op = "get", !.outcome = "returned"]
    /\ UNCHANGED <<wsVars, moVars, httpVars, obVars, feedVars, amtVars, hbVars>>

HttpPost ==
    /\ h_pc["caller"] = "idle"
    /\ \E path \in TransportPaths, body \in TransportBodies, reply \in SyncReplies :
          LET t == http_post(curl_, path, body, NoHeaders)
          IN /\ curl_' = t.curl /\ wire' = <<Exchange(t.req, reply, perform(reply))>> /\ last_response' = perform(reply)
    /\ fa' = [FaIdle EXCEPT !.op = "post", !.outcome = "returned"]
    /\ UNCHANGED <<wsVars, moVars, httpVars, obVars, feedVars, amtVars, hbVars>>

HttpDel ==
    /\ h_pc["caller"] = "idle"
    /\ \E path \in TransportPaths, body \in TransportBodies, reply \in SyncReplies :
          \E sent \in del_bodies(curl_, body) :
             LET t == http_del(curl_, path, body, sent, NoHeaders)
             IN /\ curl_' = t.curl /\ wire' = <<Exchange(t.req, reply, perform(reply))>> /\ last_response' = perform(reply)
    /\ fa' = [FaIdle EXCEPT !.op = "del", !.outcome = "returned"]
    /\ UNCHANGED <<wsVars, moVars, httpVars, obVars, feedVars, amtVars, hbVars>>

SyncNext == HttpGet \/ HttpPost \/ HttpDel

\* ---- cancel operations (clob_client.cpp:1701-1742)
cancel_order ==
    \E authenticated \in BOOLEAN, reply \in SyncReplies :
       LET did == signed_post(authenticated, "DELETE", Path("/order"),
                              "{orderID}", "{orderID}", reply)
       IN Finish("cancel_order", authenticated, "id", did, <<bool(HttpResponse_ok(did.resp))>>)

cancel_orders ==
    \E authenticated \in BOOLEAN, reply \in SyncReplies :
       LET did == signed_post(authenticated, "DELETE", Path("/orders"),
                              "[ids]", "[ids]", reply)
       IN Finish("cancel_orders", authenticated, "ids", did, <<bool(HttpResponse_ok(did.resp))>>)

\* cancel_all signs the empty body and sends "{}"
cancel_all ==
    \E authenticated \in BOOLEAN, reply \in SyncReplies :
       LET did == signed_post(authenticated, "DELETE", Path("/cancel-all"), "", "{}", reply)
       IN Finish("cancel_all", authenticated, "", did, <<bool(HttpResponse_ok(did.resp))>>)

cancel_market_orders ==
    \E authenticated \in BOOLEAN, reply \in SyncReplies :
       LET did == signed_post(authenticated, "DELETE", Path("/cancel-market-orders"),
                              "{market}", "{market}", reply)
       IN Finish("cancel_market_orders", authenticated, "c1", did,
                 <<bool(HttpResponse_ok(did.resp))>>)

\* ---- signed queries (clob_client.cpp:1759-1824, 2076-2131)
\* an optional argument: empty, or a value that goes into the query string
OptionalArgs == {"", "x1"}

\* the listing calls: the query is appended to `path`, and `path` is both signed and sent
listing(op, base, key, arg, authenticated, reply) ==
    LET path == IF arg # "" THEN with_query(Path(base), key) ELSE Path(base)
        did == signed_get(authenticated, path, path, reply)
    IN Finish(op, authenticated, arg, did,
              IF HttpResponse_ok(did.resp) THEN <<"parsed">> ELSE <<>>)

get_open_orders ==
    \E authenticated \in BOOLEAN, market \in OptionalArgs, reply \in SyncReplies :
       listing("get_open_orders", "/orders", "market", market, authenticated, reply)

get_trades ==
    \E authenticated \in BOOLEAN, next_cursor \in OptionalArgs, reply \in SyncReplies :
       listing("get_trades", "/trades", "next_cursor", next_cursor, authenticated, reply)

get_earnings_for_user_for_day ==
    \E authenticated \in BOOLEAN, date \in OptionalArgs, reply \in SyncReplies :
       listing("get_earnings_for_user_for_day", "/rewards/earnings", "date", date,
               authenticated, reply)

get_total_earnings_for_user_for_day ==
    \E authenticated \in BOOLEAN, date \in OptionalArgs, reply \in SyncReplies :
       listing("get_total_earnings_for_user_for_day", "/rewards/total-earnings", "date",
               date, authenticated, reply)

\* get_balance_allowance signs base_path and sends path_with_params
get_balance_allowance ==
    \E authenticated \in BOOLEAN, reply \in SyncReplies :
       LET base_path == Path("/balance-allowance")
           path_with_params == with_query(base_path, "asset_type,signature_type")
           did == signed_get(authenticated, base_path, path_with_params, reply)
       IN Finish("get_balance_allowance", authenticated, "COLLATERAL", did,
                 IF HttpResponse_ok(did.resp) THEN <<"parsed">> ELSE <<"error">>)

\* ---- orders (clob_client.cpp:888-938, 1145-1267)
OrderTypes == {"GTC", "FOK"}

\* replies to POST /order and POST /orders
OrderReplies ==
    NetworkFailures \cup
    { Reply("CURLE_OK", 200, <<ObjDoc("success")>>),
      Reply("CURLE_OK", 200, <<ArrDoc(<<"success">>)>>),
      Reply("CURLE_OK", 200, << <<[t |-> "[", v |-> ""]>>, Tail(ArrDoc(<<"success", "rejected">>)) >>),
      Reply("CURLE_OK", 200, <<ArrDoc(<<>>)>>),
      Reply("CURLE_OK", 400, <<ObjDoc("error")>>),
      Reply("CURLE_OK", 502, <<JunkDoc>>) }

\* replies to the unauthenticated GET /neg-risk of create_order
PlainReplies == {Reply("CURLE_OK", 200, <<ObjDoc("true")>>), Reply("CURLE_COULDNT_CONNECT", 0, <<>>)}

\* parse_order_response: the fields of a JSON object; anything else leaves the
\* default-constructed failure ("unparsed")
parse_order_response(body) ==
    LET j == json_parse(body)
    IN IF j.kind = "object" THEN j.items[1] ELSE "unparsed"

\* create_order: needs the signer; fetches neg_risk when the caller gives none
create_order ==
    \E authenticated \in BOOLEAN, neg_risk \in {"none", "true"}, reply \in PlainReplies :
       LET t == http_get(curl_, with_query(Path("/neg-risk"), "token_id"), NoHeaders)
           did == IF ~authenticated THEN threw(NotAuthenticated)
                  ELSE IF neg_risk = "none"
                    THEN Did(t.curl, <<Exchange(t.req, reply, perform(reply))>>, perform(reply), <<>>, "returned")
                  ELSE Did(curl_, <<>>, NoSyncResponse, <<>>, "returned")
       IN Finish("create_order", authenticated, neg_risk, did, <<"signed">>)

\* post_order: the post_only check, then the credentials check, then the signed POST
post_order ==
    \E authenticated \in BOOLEAN, post_only \in BOOLEAN, order_type \in OrderTypes,
       reply \in OrderReplies :
       LET did == IF post_only /\ order_type \notin {"GTC", "GTD"}
                    THEN threw(PostOnlyUnsupported)
                  ELSE IF ~authenticated THEN threw(NotAuthenticated)
                  ELSE signed_post(authenticated, "POST", Path("/order"),
                                   "{order}", "{order}", reply)
       IN Finish("post_order", authenticated, order_type, did,
                 <<parse_order_response(did.resp.body)>>)

\* the batches handed to post_orders: the order type of each entry
Batches == {<<>>, <<"GTC">>, <<"GTC", "FOK">>}

\* the result list post_orders builds from the response body
batch_results(body) ==
    LET j == json_parse(body)
    IN IF j.kind = "error" THEN <<parse_order_response(body)>>
       ELSE IF j.kind = "array" THEN j.items
       ELSE <<>>

\* post_orders: an empty batch returns at once; then as post_order, on /orders
post_orders ==
    \E authenticated \in BOOLEAN, post_only \in BOOLEAN, orders \in Batches,
       reply \in OrderReplies :
       LET did == IF orders = <<>> THEN Did(curl_, <<>>, NoSyncResponse, <<>>, "returned")
                  ELSE IF post_only /\ \E i \in 1..Len(orders) : orders[i] \notin {"GTC", "GTD"}
                    THEN threw(PostOnlyUnsupported)
                  ELSE IF ~authenticated THEN threw(NotAuthenticated)
                  ELSE signed_post(authenticated, "POST", Path("/orders"),
                                   "[orders]", "[orders]", reply)
       IN Finish("post_orders", authenticated, bool(orders # <<>>), did,
                 IF orders = <<>> THEN <<>> ELSE batch_results(did.resp.body))

\* ---- API credentials (order_signer.cpp:537-611, clob_client.cpp:839-846)
L1Headers == L2("L1", Path("ClobAuth"), "")

CredentialReplies ==
    NetworkFailures \cup
    { Reply("CURLE_OK", 200, <<ObjDoc("creds")>>),
      Reply("CURLE_OK", 200, <<ObjDoc("error")>>),
      Reply("CURLE_OK", 200, <<JunkDoc>>),
      Reply("CURLE_OK", 401, <<ObjDoc("creds")>>) }

\* the tail shared by derive_api_credentials and create_api_credentials: throw on a
\* non-2xx status, parse, read apiKey / secret / passphrase (throws when one is missing)
credentials_of(response) ==
    LET j == json_parse(response.body)
    IN IF ~HttpResponse_ok(response) THEN "threw"
       ELSE IF j.kind = "object" /\ j.items[1] = "creds" THEN "creds"
       ELSE "threw"

\* derive_api_credentials: GET /auth/derive-api-key with L1 headers
derive_api_credentials(h, reply) ==
    LET t == http_get(h, Path("/auth/derive-api-key"), L1Headers)
    IN [curl |-> t.curl, req |-> Exchange(t.req, reply, perform(reply)), resp |-> perform(reply),
        creds |-> credentials_of(perform(reply))]

\* create_api_credentials: POST /auth/api-key with L1 headers
create_api_credentials(h, reply) ==
    LET t == http_post(h, Path("/auth/api-key"), "{}", L1Headers)
    IN [curl |-> t.curl, req |-> Exchange(t.req, reply, perform(reply)), resp |-> perform(reply),
        creds |-> credentials_of(perform(reply))]

\* create_or_derive_api_credentials trying create first (mutant)
create_or_derive_create_first(h, derive_reply, create_reply) ==
    LET c == create_api_credentials(h, create_reply)
        d == derive_api_credentials(c.curl, derive_reply)
    IN IF c.creds # "threw" THEN Did(c.curl, <<c.req>>, c.resp, <<>>, "returned")
       ELSE IF d.creds # "threw" THEN Did(d.curl, <<c.req, d.req>>, d.resp, <<>>, "returned")
       ELSE Did(d.curl, <<c.req, d.req>>, d.resp, <<>>,
                "Could not derive or create API credentials")

\* create_or_derive_api_credentials: derive; if that throws, create; if that throws, throw
create_or_derive_api_credentials(h, derive_reply, create_reply) ==
    LET d == derive_api_credentials(h, derive_reply)
        c == create_api_credentials(d.curl, create_reply)
    IN IF d.creds # "threw" THEN Did(d.curl, <<d.req>>, d.resp, <<>>, "returned")
       ELSE IF c.creds # "threw" THEN Did(c.curl, <<d.req, c.req>>, c.resp, <<>>, "returned")
       ELSE Did(c.curl, <<d.req, c.req>>, c.resp, <<>>,
                "Could not derive or create API credentials")

\* ClobClient::create_or_derive_api_key: needs the signer
create_or_derive_api_key ==
    \E authenticated \in BOOLEAN, derive_reply \in CredentialReplies,
       create_reply \in CredentialReplies :
       LET did == IF ~authenticated THEN threw(NotAuthenticated)
                  ELSE create_or_derive_api_credentials(curl_, derive_reply, create_reply)
       IN Finish("create_or_derive_api_key", authenticated, "", did, <<"creds">>)

\* create_and_post_market_order_v2_async called on a client without credentials
MarketOrderAsyncUnauthenticated ==
    /\ mo.pc = "idle"
    /\ \E strict_no_fetch \in BOOLEAN :
          mo' = create_and_post_market_order_v2_async(
                    [DefaultParams EXCEPT !.strict_no_fetch = strict_no_fetch], FALSE)
    /\ UNCHANGED <<wsVars, httpVars, obVars, faVars, feedVars, amtVars, hbVars>>

FacadeNext ==
    \/ cancel_order \/ cancel_orders \/ cancel_all \/ cancel_market_orders
    \/ get_open_orders \/ get_trades \/ get_earnings_for_user_for_day
    \/ get_total_earnings_for_user_for_day \/ get_balance_allowance
    \/ create_order \/ post_order \/ post_orders \/ create_or_derive_api_key
    \/ MarketOrderAsyncUnauthenticated
    \/ SyncNext

(***************************************************************************)
(* Book ingestion: handle_message on the socket thread, and books fetched  *)
(* over REST.  The socket thread is taken alone here, from the text of a   *)
(* message to the end of handle_orderbook_update, with both callbacks      *)
(* registered.  A level is its price in hundredths; a negative price       *)
(* stands for a value that cannot be read (a non-numeric string, a null).  *)
(***************************************************************************)

\* number of book updates the manager takes
MaxFeedUpdates == 2

\* the sides of a book as the upstream sends them
BidInputs == {<<>>, <<10, 20>>}

AskInputs == {<<>>, <<48>>, <<49, 48>>, <<0 - 1>>}

\* a message: its text ("object" for a JSON object), which envelope keys it has, the value
\* of event_type or of topic/type, asset_id ("" when absent), how price and size are encoded
Message(text, envelope, kind, asset_id, encoding, bids, asks) ==
    [text |-> text, envelope |-> envelope, kind |-> kind, asset_id |-> asset_id,
     encoding |-> encoding, bids |-> bids, asks |-> asks]

NoMessage == Message("none", "none", "other", "", "string", <<>>, <<>>)

\* messages that are not a JSON object
PlainMessages ==
    { Message(t, "none", "other", "", "string", <<>>, <<>>) :
        t \in {"empty", "braces", "invalid", "array", "object"} }

\* the envelopes: the key event_type with its value, or topic / type / payload
Envelopes ==
    { <<"legacy", "book">>, <<"legacy", "price_change">>, <<"legacy", "other">>,
      <<"realtime", "agg_orderbook">>, <<"realtime", "other">> }

\* JSON objects with one of the two envelopes: every combination for y1, and for the
\* other tokens the books that matter to the market record and to the token lookup
EnvelopeMessages ==
    { Message("object", e[1], e[2], "y1", enc, b, s) :
        e \in Envelopes, enc \in {"string", "number"}, b \in BidInputs, s \in AskInputs }
    \cup { Message("object", e[1], e[2], "n1", "string", <<>>, s) :
             e \in {<<"legacy", "book">>, <<"realtime", "agg_orderbook">>},
             s \in {<<48>>, <<49, 48>>} }
    \cup { Message("object", e[1], e[2], a, "string", <<>>, <<48>>) :
             e \in {<<"legacy", "book">>, <<"realtime", "agg_orderbook">>}, a \in {"", "zz"} }

\* bodies of GET /book: an HTTP error, a body that is not JSON, or a book
RestBodies ==
    { Message(t, "rest", "book", "y1", "string", <<>>, <<>>) : t \in {"http_error", "invalid"} }
    \cup { Message("object", "rest", "book", "y1", enc, b, s) :
             enc \in {"string", "number"}, b \in BidInputs, s \in AskInputs }

\* the comparators given to std::sort
precedes(a, b, descending) == IF descending THEN a > b ELSE a < b

RECURSIVE insert_level(_, _, _)
insert_level(x, s, descending) ==
    IF s = <<>> THEN <<x>>
    ELSE IF precedes(x, Head(s), descending) THEN <<x>> \o s
    ELSE <<Head(s)>> \o insert_level(x, Tail(s), descending)

\* std::sort of one side by price
RECURSIVE std_sort(_, _)
std_sort(s, descending) ==
    IF s = <<>> THEN <<>>
    ELSE insert_level(Head(s), std_sort(Tail(s), descending), descending)

\* std::stod(level["price"].get<std::string>()): throws for a JSON number and for a string
\* that is not a number
string_levels_throw(encoding, levels) ==
    levels # <<>> /\ (encoding # "string" \/ \E i \in 1..Len(levels) : levels[i] < 0)

\* is_string() ? std::stod(get<std::string>()) : get<double>(): throws for a string that is
\* not a number and for a value that is neither
any_levels_throw(encoding, levels) == \E i \in 1..Len(levels) : levels[i] < 0

\* what the parsing part of handle_message comes to
Parsed(status, asset_id, bids, asks) ==
    [status |-> status, asset_id |-> asset_id, bids |-> bids, asks |-> asks]

\* every object with an envelope and an asset_id is handed on, with no levels, whatever
\* else is wrong with it (mutant of parse_message)
parse_message_keeps_partial(m) ==
    IF m.text = "object" /\ m.envelope \in {"legacy", "realtime"} /\ m.asset_id # ""
    THEN Parsed("update", m.asset_id, <<>>, <<>>)
    ELSE Parsed("return", "", <<>>, <<>>)

\* handle_message up to the call of handle_orderbook_update: "return" for the early
\* returns, "throw" for an exception inside the try block, "update" with the parsed book
parse_message(m) ==
    IF m.text \in {"empty", "braces"} THEN Parsed("return", "", <<>>, <<>>)
    ELSE IF m.text = "invalid" THEN Parsed("throw", "", <<>>, <<>>)
    ELSE IF m.text = "array" THEN Parsed("return", "", <<>>, <<>>)
    ELSE IF m.envelope = "realtime" /\ m.kind = "agg_orderbook"
      THEN IF m.asset_id = "" THEN Parsed("return", "", <<>>, <<>>)
           ELSE IF string_levels_throw(m.encoding, m.asks)
                   \/ string_levels_throw(m.encoding, m.bids)
             THEN Parsed("throw", "", <<>>, <<>>)
           ELSE Parsed("update", m.asset_id, m.bids, m.asks)
    ELSE IF m.envelope # "legacy" THEN Parsed("return", "", <<>>, <<>>)
    ELSE IF m.kind \notin {"book", "price_change"} THEN Parsed("return", "", <<>>, <<>>)
    ELSE IF m.asset_id = "" THEN Parsed("return", "", <<>>, <<>>)
    ELSE IF any_levels_throw(m.encoding, m.bids) \/ any_levels_throw(m.encoding, m.asks)
      THEN Parsed("throw", "", <<>>, <<>>)
    ELSE Parsed("update", m.asset_id, std_sort(m.bids, TRUE), std_sort(m.asks, FALSE))

\* ClobClient::parse_orderbook after get_order_book's ok() check: std::nullopt (not
\* present) on an HTTP error or any exception, else the levels in the body's order
parse_orderbook(m) ==
    IF m.text # "object" THEN [present |-> FALSE, bids |-> <<>>, asks |-> <<>>]
    ELSE IF string_levels_throw(m.encoding, m.bids) \/ string_levels_throw(m.encoding, m.asks)
      THEN [present |-> FALSE, bids |-> <<>>, asks |-> <<>>]
    ELSE [present |-> TRUE, bids |-> m.bids, asks |-> m.asks]

NoFetch == [present |-> FALSE, bids |-> <<>>, asks |-> <<>>]

\* the manager after construction, before any call
FeedIdle ==
    [op |-> "none", msg |-> NoMessage, outcome |-> "none", escaped |-> FALSE,
     fetched |-> NoFetch,
     orderbooks_ |-> [t \in Tokens |-> [present |-> FALSE, bids |-> <<>>, asks |-> <<>>]],
     markets_ |-> [c \in Conditions |-> NoMarket],
     token_to_condition_ |-> [t \in Tokens |-> "none"],
     total_updates_ |-> 0, arb_opportunities_ |-> 0, update_cb |-> 0, arb_cb |-> 0]

FeedInit == feed = FeedIdle

\* handle_orderbook_update followed by check_arb_opportunity, on one thread
handle_orderbook_update(f, asset_id, bids, asks) ==
    LET f1 == [f EXCEPT !.orderbooks_[asset_id] =
                            [present |-> TRUE, bids |-> bids, asks |-> asks],
                        !.total_updates_ = @ + 1]
        c == f.token_to_condition_[asset_id]
    IN IF c = "none" THEN f1
       ELSE LET market == IF f1.markets_[c].present
                          THEN store_best_ask(f1.markets_[c], asset_id, asks)
                          ELSE f1.markets_[c]
                f2 == [f1 EXCEPT !.markets_[c] = market, !.update_cb = @ + 1]
            IN IF market.present
                  /\ is_arb(market.best_ask_yes, market.best_ask_no, combined(market))
               THEN [f2 EXCEPT !.arb_opportunities_ = @ + 1, !.arb_cb = @ + 1]
               ELSE f2

\* subscribe(market) with no other thread running
FeedSubscribe ==
    /\ \E market \in MarketInputs :
          /\ ~feed.markets_[market.condition_id].present
          /\ feed' = [feed EXCEPT
                        !.op = "subscribe", !.msg = NoMessage, !.outcome = "returned",
                        !.fetched = NoFetch,
                        !.markets_[market.condition_id] = LiveMarketState(market),
                        !.token_to_condition_[market.token_yes] = market.condition_id,
                        !.token_to_condition_[market.token_no] = market.condition_id]
    /\ UNCHANGED <<wsVars, moVars, httpVars, obVars, faVars, amtVars, hbVars>>

\* handle_message(message): parse inside try, catch std::exception, else the update
HandleMessage ==
    /\ feed.total_updates_ < MaxFeedUpdates
    /\ \E m \in PlainMessages \cup EnvelopeMessages :
          LET p == parse_message(m)
              f == [feed EXCEPT !.op = "handle_message", !.msg = m, !.fetched = NoFetch,
                                !.outcome = IF p.status = "update" THEN "stored"
                                            ELSE "dropped"]
          IN feed' = IF p.status = "update"
                     THEN handle_orderbook_update(f, p.asset_id, p.bids, p.asks)
                     ELSE f
    /\ UNCHANGED <<wsVars, moVars, httpVars, obVars, faVars, amtVars, hbVars>>

\* ClobClient::get_order_book(token_id)
FetchBook ==
    /\ \E m \in RestBodies :
          feed' = [feed EXCEPT !.op = "get_order_book", !.msg = m,
                               !.outcome = "returned", !.fetched = parse_orderbook(m)]
    /\ UNCHANGED <<wsVars, moVars, httpVars, obVars, faVars, amtVars, hbVars>>

FeedNext == FeedSubscribe \/ HandleMessage \/ FetchBook

(***************************************************************************)
(* Amounts: IEEE-754 binary64 arithmetic                                   *)
(* A natural number of any size is a sequence of limbs in base 2^14, least *)
(* significant first, without leading zero limbs; zero is <<>>.  A double  *)
(* (finite, non-negative) is [m, e] with value m * 2^e, where m is zero    *)
(* (and e = 0) or has exactly 53 bits.  Every operation rounds its exact   *)
(* result to nearest, ties to even, as the hardware does.  A string of     *)
(* decimal digits is a sequence of digits.                                 *)
(***************************************************************************)

LimbBits == 14

\* 2^n for 0 <= n <= LimbBits
RECURSIVE Pow2(_)
Pow2(n) == IF n = 0 THEN 1 ELSE 2 * Pow2(n - 1)

Base == Pow2(LimbBits)

RECURSIVE SmallBitLen(_)
SmallBitLen(n) == IF n = 0 THEN 0 ELSE 1 + SmallBitLen(n \div 2)

RECURSIVE BnNorm(_)
BnNorm(a) ==
    IF a = <<>> THEN <<>>
    ELSE IF a[Len(a)] = 0 THEN BnNorm(SubSeq(a, 1, Len(a) - 1))
    ELSE a

RECURSIVE BnOfInt(_)
BnOfInt(n) == IF n = 0 THEN <<>> ELSE <<n % Base>> \o BnOfInt(n \div Base)

Limb(a, i) == IF i <= Len(a) THEN a[i] ELSE 0

RECURSIVE BnCmpAt(_, _, _)
BnCmpAt(a, b, i) ==
    IF i = 0 THEN 0
    ELSE IF a[i] < b[i] THEN 0 - 1
    ELSE IF a[i] > b[i] THEN 1
    ELSE BnCmpAt(a, b, i - 1)

\* -1, 0 or 1 as a < b, a = b or a > b
BnCmp(a, b) ==
    IF Len(a) < Len(b) THEN 0 - 1
    ELSE IF Len(a) > Len(b) THEN 1
    ELSE BnCmpAt(a, b, Len(a))

RECURSIVE BnAddFrom(_, _, _, _)
BnAddFrom(a, b, i, carry) ==
    IF i > Len(a) /\ i > Len(b) THEN (IF carry = 0 THEN <<>> ELSE <<carry>>)
    ELSE LET s == Limb(a, i) + Limb(b, i) + carry
         IN <<s % Base>> \o BnAddFrom(a, b, i + 1, s \div Base)

BnAdd(a, b) == BnAddFrom(a, b, 1, 0)

RECURSIVE BnSubFrom(_, _, _, _)
BnSubFrom(a, b, i, borrow) ==
    IF i > Len(a) THEN <<>>
    ELSE LET d == a[i] - Limb(b, i) - borrow
         IN IF d < 0 THEN <<d + Base>> \o BnSubFrom(a, b, i + 1, 1)
            ELSE <<d>> \o BnSubFrom(a, b, i + 1, 0)

\* a - b for a >= b
BnSub(a, b) == BnNorm(BnSubFrom(a, b, 1, 0))

RECURSIVE BnMulSmallFrom(_, _, _, _)
BnMulSmallFrom(a, k, i, carry) ==
    IF i > Len(a) THEN (IF carry = 0 THEN <<>> ELSE <<carry>>)
    ELSE LET p == a[i] * k + carry
         IN <<p % Base>> \o BnMulSmallFrom(a, k, i + 1, p \div Base)

\* a * k for 0 <= k <= Base
BnMulSmall(a, k) == BnNorm(BnMulSmallFrom(a, k, 1, 0))

Zeros(n) == [i \in 1..n |-> 0]

RECURSIVE BnMulFrom(_, _, _)
BnMulFrom(a, b, i) ==
    IF i > Len(b) THEN <<>>
    ELSE BnAdd(BnNorm(Zeros(i - 1) \o BnMulSmall(a, b[i])), BnMulFrom(a, b, i + 1))

BnMul(a, b) == BnMulFrom(a, b, 1)

RECURSIVE BnDivSmallFrom(_, _, _)
BnDivSmallFrom(a, k, i) ==
    IF i > Len(a) THEN [q |-> <<>>, r |-> 0]
    ELSE LET h == BnDivSmallFrom(a, k, i + 1)
             cur == h.r * Base + a[i]
         IN [q |-> <<cur \div k>> \o h.q, r |-> cur % k]

\* quotient and remainder of a by k, 0 < k <= Base
BnDivSmall(a, k) ==
    LET d == BnDivSmallFrom(a, k, 1) IN [q |-> BnNorm(d.q), r |-> d.r]

\* a * 2^n
BnShl(a, n) ==
    IF a = <<>> THEN <<>>
    ELSE Zeros(n \div LimbBits) \o BnMulSmall(a, Pow2(n % LimbBits))

\* floor(a / 2^n)
BnShr(a, n) ==
    IF n \div LimbBits >= Len(a) THEN <<>>
    ELSE BnDivSmall(SubSeq(a, n \div LimbBits + 1, Len(a)), Pow2(n % LimbBits)).q

BnBitLen(a) == IF a = <<>> THEN 0 ELSE LimbBits * (Len(a) - 1) + SmallBitLen(a[Len(a)])

\* bit i of a (bit 0 is the least significant)
BnBit(a, i) == (Limb(a, i \div LimbBits + 1) \div Pow2(i % LimbBits)) % 2

\* the largest of qhat, qhat - 1, qhat - 2 whose product with d is at most r
Corrected(r, d, qhat) ==
    IF BnCmp(BnMulSmall(d, qhat), r) <= 0 THEN qhat
    ELSE IF BnCmp(BnMulSmall(d, qhat - 1), r) <= 0 THEN qhat - 1
    ELSE qhat - 2

Capped(est) == IF est > Base - 1 THEN Base - 1 ELSE est

\* the quotient limb of r by d when r < d * Base and the top limb of d is at least
\* Base / 2: the estimate from the top limbs is at most 2 too large
QuotientLimb(r, d) ==
    Corrected(r, d, Capped((Limb(r, Len(d) + 1) * Base + Limb(r, Len(d))) \div d[Len(d)]))

Divided(h, r2, k, d) == [q |-> <<k>> \o h.q, r |-> BnSub(r2, BnMulSmall(d, k))]

\* one step of long division: the remainder so far takes the next limb, and the
\* quotient gains the limb's quotient
DivStep(h, r2, d) ==
    IF r2 = <<0>> THEN [q |-> <<0>> \o h.q, r |-> <<>>]
    ELSE Divided(h, r2, QuotientLimb(r2, d), d)

DivStepFrom(h, limb, d) == DivStep(h, <<limb>> \o h.r, d)

RECURSIVE BnDivModFrom(_, _, _)
\* long division: the quotient and remainder of the limbs of a from limb i upwards
BnDivModFrom(a, d, i) ==
    IF i > Len(a) THEN [q |-> <<>>, r |-> <<>>]
    ELSE DivStepFrom(BnDivModFrom(a, d, i + 1), a[i], d)

Unscaled(h, s) == [q |-> BnNorm(h.q), r |-> BnShr(h.r, s)]

Scaled(a, d, s) == Unscaled(BnDivModFrom(BnShl(a, s), BnShl(d, s), 1), s)

\* quotient and remainder of a by d, d > 0; both are first scaled by a power of 2 so
\* that the divisor's top limb is at least Base / 2
BnDivMod(a, d) ==
    IF BnCmp(a, d) < 0 THEN [q |-> <<>>, r |-> a]
    ELSE Scaled(a, d, LimbBits - SmallBitLen(d[Len(d)]))

RECURSIVE BnPow10(_)
BnPow10(n) == IF n = 0 THEN <<1>> ELSE BnMulSmall(BnPow10(n - 1), 10)

RECURSIVE BnOfDigitsFrom(_, _)
BnOfDigitsFrom(digits, i) ==
    IF i = 0 THEN <<>>
    ELSE BnAdd(BnMulSmall(BnOfDigitsFrom(digits, i - 1), 10), BnOfInt(digits[i]))

\* the number a digit string denotes
BnOfDigits(digits) == BnOfDigitsFrom(digits, Len(digits))

RECURSIVE BnDigits(_)
\* the decimal digits of a, most significant first; <<>> for zero
BnDigits(a) ==
    IF a = <<>> THEN <<>>
    ELSE LET d == BnDivSmall(a, 10) IN BnDigits(d.q) \o <<d.r>>

MantissaBits == 53

DZero == [m |-> <<>>, e |-> 0]

\* whether a value cut to a whole number rounds up: c compares the part cut off
\* with one half, `sticky` says the part is a little larger still, `odd` that the
\* whole number is odd
RoundsUp(c, sticky, odd) == c > 0 \/ (c = 0 /\ (sticky \/ odd))

\* n / 2^s, of which q is the whole part, rounded to nearest, ties to even (s > 0)
Nearest(n, q, s, sticky) ==
    IF RoundsUp(BnCmp(BnSub(n, BnShl(q, s)), BnShl(<<1>>, s - 1)), sticky, BnBit(q, 0) = 1)
    THEN BnAdd(q, <<1>>)
    ELSE q

\* rounding up may have carried into a 54th bit
Renormalized(q, e) ==
    IF BnBitLen(q) > MantissaBits THEN [m |-> BnShr(q, 1), e |-> e + 1] ELSE [m |-> q, e |-> e]

RoundToBits(n, len, e, sticky) ==
    IF len = 0 THEN DZero
    ELSE IF len <= MantissaBits
      THEN [m |-> BnShl(n, MantissaBits - len), e |-> e - (MantissaBits - len)]
    ELSE Renormalized(Nearest(n, BnShr(n, len - MantissaBits), len - MantissaBits, sticky),
                      e + len - MantissaBits)

\* the double nearest to n * 2^e (ties to even); `sticky` says that the exact value is
\* larger than n * 2^e by less than 2^e, and then n has more than 54 bits
RoundToDouble(n, e, sticky) == RoundToBits(n, BnBitLen(n), e, sticky)

\* the double nearest to a quotient with remainder d, scaled by 2^e
RoundQuotient(d, e) == RoundToDouble(d.q, e, d.r # <<>>)

\* a * b
DMul(a, b) ==
    IF a.m = <<>> \/ b.m = <<>> THEN DZero
    ELSE RoundToDouble(BnMul(a.m, b.m), a.e + b.e, FALSE)

QuotientBits == 60

\* a / b, b > 0
DDiv(a, b) ==
    IF a.m = <<>> THEN DZero
    ELSE RoundQuotient(BnDivMod(BnShl(a.m, QuotientBits), b.m), a.e - b.e - QuotientBits)

AddAligned(a, b, emin) ==
    RoundToDouble(BnAdd(BnShl(a.m, a.e - emin), BnShl(b.m, b.e - emin)), emin, FALSE)

\* a + b
DAdd(a, b) ==
    IF a.m = <<>> THEN b
    ELSE IF b.m = <<>> THEN a
    ELSE AddAligned(a, b, IF a.e < b.e THEN a.e ELSE b.e)

WithFraction(a, q) ==
    [q |-> q, cut |-> BnShl(q, 0 - a.e) # a.m, half |-> BnBit(a.m, 0 - a.e - 1) = 1]

\* the integer part of a, whether a fraction was cut off, and whether it was at least
\* one half
Truncated(a) ==
    IF a.e >= 0 THEN [q |-> BnShl(a.m, a.e), cut |-> FALSE, half |-> FALSE]
    ELSE WithFraction(a, BnShr(a.m, 0 - a.e))

Whole(q, up) == RoundToDouble(IF up THEN BnAdd(q, <<1>>) ELSE q, 0, FALSE)

CeilOf(t) == Whole(t.q, t.cut)

RoundOf(t) == Whole(t.q, t.half)

\* std::floor, std::ceil and std::round (halves away from zero) of a >= 0
floor(a) == Whole(Truncated(a).q, FALSE)

ceil(a) == CeilOf(Truncated(a))

round(a) == RoundOf(Truncated(a))

\* std::pow(10.0, n) and the literal 1e10: exact
pow10(n) == RoundToDouble(BnPow10(n), 0, FALSE)

\* std::numeric_limits<double>::epsilon() = 2^-52
epsilon == RoundToDouble(<<1>>, 0 - 52, FALSE)

LiteralBits == 105

\* the double a decimal literal denotes: `digits` read as a whole number, divided by
\* 10^scale (3.03 is digits <<3,0,3>>, scale 2)
Decimal(digits, scale) == [digits |-> digits, scale |-> scale]

stod_exact(dec) ==
    RoundQuotient(BnDivMod(BnShl(BnOfDigits(dec.digits), LiteralBits), BnPow10(dec.scale)),
                  0 - LiteralBits)

\* digits, with zeros in front so that at least one stands before the point
Padded(ds, precision) ==
    IF Len(ds) > precision THEN ds ELSE Zeros(precision + 1 - Len(ds)) \o ds

SplitAt(padded, precision) ==
    [int |-> SubSeq(padded, 1, Len(padded) - precision),
     frac |-> SubSeq(padded, Len(padded) - precision + 1, Len(padded))]

\* n * 2^e rounded to the nearest whole number, ties to even
NearestWhole(n, e) ==
    IF e >= 0 THEN BnShl(n, e) ELSE Nearest(n, BnShr(n, 0 - e), 0 - e, FALSE)

\* operator<< with std::fixed and std::setprecision(precision): the digits before and
\* after the point of the value rounded to `precision` decimals (ties to even)
fixed(a, precision) ==
    SplitAt(Padded(BnDigits(NearestWhole(BnMul(a.m, BnPow10(precision)), a.e)), precision),
            precision)

RECURSIVE strip_trailing_zeros(_)
strip_trailing_zeros(str) ==
    IF str # <<>> /\ str[Len(str)] = 0
    THEN strip_trailing_zeros(SubSeq(str, 1, Len(str) - 1))
    ELSE str

RECURSIVE strip_leading_zeros(_)
strip_leading_zeros(str) ==
    IF str # <<>> /\ str[1] = 0 THEN strip_leading_zeros(Tail(str)) ELSE str

\* decimal_places: 0 for a whole number, else the number of decimals of the value
\* printed with 12 decimals, trailing zeros removed
decimal_places(value) ==
    IF floor(value) = value THEN 0
    ELSE Len(strip_trailing_zeros(fixed(value, 12).frac))

round_normal(value, decimals) ==
    IF decimal_places(value) <= decimals THEN value
    ELSE DDiv(round(DMul(DAdd(value, epsilon), pow10(decimals))), pow10(decimals))

\* the variant of round_down that rounds to the nearest multiple instead of flooring
round_down_to_nearest(value, decimals) ==
    IF decimal_places(value) <= decimals THEN value
    ELSE DDiv(round(DMul(value, pow10(decimals))), pow10(decimals))

round_down(value, decimals) ==
    IF decimal_places(value) <= decimals THEN value
    ELSE DDiv(floor(DMul(value, pow10(decimals))), pow10(decimals))

round_up(value, decimals) ==
    IF decimal_places(value) <= decimals THEN value
    ELSE DDiv(ceil(DMul(value, pow10(decimals))), pow10(decimals))

\* the integer part concatenated with the first `decimals` digits of the fraction
base_units(str, decimals) == str.int \o SubSeq(str.frac, 1, decimals)

or_zero(result) == IF result = <<>> THEN <<0>> ELSE result

\* to_wei(amount, decimals, round_down = true)
to_wei(amount, decimals) ==
    or_zero(strip_leading_zeros(base_units(
        fixed(DDiv(floor(DMul(amount, pow10(10))), pow10(10)), 10), decimals)))

(***************************************************************************)
(* Amount derivation of create_market_order_v2 and to_wei                  *)
(* The derivation is a sequence of statements on local doubles; each       *)
(* statement is one step.  to_wei is called on its own as well.            *)
(***************************************************************************)

\* a market order's inputs: tick size, side, and the price and amount as the decimal
\* literals the caller wrote
AmountOrder(tick_size, side, price, amount) ==
    [tick_size |-> tick_size, side |-> side, price |-> price, amount |-> amount]

AmountOrders ==
    { AmountOrder("0.01", "BUY", Decimal(<<5, 7>>, 2), Decimal(<<1, 0, 0>>, 2)),
      AmountOrder("0.01", "SELL", Decimal(<<5, 7>>, 2), Decimal(<<1, 0, 0>>, 2)),
      AmountOrder("0.01", "BUY", Decimal(<<5, 0>>, 2), Decimal(<<1, 0, 0>>, 2)),
      AmountOrder("0.01", "BUY", Decimal(<<2, 6>>, 2), Decimal(<<1>>, 2)),
      AmountOrder("0.01", "BUY", Decimal(<<5, 7, 5>>, 3), Decimal(<<1, 0, 0, 5>>, 3)),
      AmountOrder("0.01", "SELL", Decimal(<<5, 7, 5>>, 3), Decimal(<<1, 0, 0, 5>>, 3)),
      AmountOrder("0.01", "SELL", Decimal(<<2, 5>>, 2), Decimal(<<3, 0, 0>>, 2)),
      AmountOrder("0.1", "BUY", Decimal(<<1>>, 1), Decimal(<<3>>, 1)),
      AmountOrder("0.1", "BUY", Decimal(<<7>>, 1), Decimal(<<1, 1, 4>>, 2)),
      AmountOrder("0.1", "SELL", Decimal(<<5>>, 1), Decimal(<<1, 1, 4>>, 2)),
      AmountOrder("0.1", "SELL", Decimal(<<5>>, 1), Decimal(<<2, 0, 0>>, 2)),
      AmountOrder("0.001", "BUY", Decimal(<<1, 2, 3>>, 3), Decimal(<<5, 0, 0>>, 2)),
      AmountOrder("0.001", "SELL", Decimal(<<1, 2, 3>>, 3), Decimal(<<1, 2, 3, 4, 5>>, 2)),
      AmountOrder("0.0001", "BUY", Decimal(<<3, 3, 3, 3>>, 4), Decimal(<<1, 0, 0>>, 2)),
      AmountOrder("0.0001", "SELL", Decimal(<<3, 3, 3, 3>>, 4), Decimal(<<7>>, 2)) }

\* the price of a literal in ten-thousandths (the literals above have at most 4 decimals)
RECURSIVE SmallOfDigits(_, _)
SmallOfDigits(digits, i) ==
    IF i = 0 THEN 0 ELSE 10 * SmallOfDigits(digits, i - 1) + digits[i]

RECURSIVE SmallPow10(_)
SmallPow10(n) == IF n = 0 THEN 1 ELSE 10 * SmallPow10(n - 1)

in_price_scale(dec) ==
    SmallOfDigits(dec.digits, Len(dec.digits)) * SmallPow10(4 - dec.scale)

\* amounts to_wei is called with: one literal, or the sum of two
WeiAmounts ==
    { <<Decimal(<<3, 0, 3>>, 2)>>,
      <<Decimal(<<1>>, 1), Decimal(<<2>>, 1)>>,
      <<Decimal(<<1, 2, 3, 4, 5, 6, 7, 8, 9, 0, 1, 2, 3, 4, 5>>, 14)>>,
      <<Decimal(<<0>>, 0)>>,
      <<Decimal(<<5>>, 0)>>,
      <<Decimal(<<5, 7>>, 2)>>,
      <<Decimal(<<1, 7, 5, 4, 3>>, 4)>>,
      <<Decimal(<<2, 5>>, 2)>>,
      <<Decimal(<<1, 2, 3, 4, 5>>, 2)>>,
      <<Decimal(<<7>>, 3)>> }

WeiDecimals == 2..8

\* the double an expression  t1  or  t1 + t2  of literals evaluates to
sum_of(terms) ==
    IF Len(terms) = 1 THEN stod_exact(terms[1])
    ELSE DAdd(stod_exact(terms[1]), stod_exact(terms[2]))

AmtIdle ==
    [pc |-> "idle", tick_size |-> "", side |-> "", terms |-> <<>>,
     price |-> DZero, amount |-> DZero,
     raw_price |-> DZero, raw_maker_amt |-> DZero, raw_taker_amt |-> DZero, stages |-> 0,
     maker_amount |-> <<>>, taker_amount |-> <<>>, decimals |-> 0, result |-> <<>>]

AmtInit == amt = AmtIdle

round_config == kRoundingConfig[normalize_tick_size(amt.tick_size)]

\* create_market_order_v2 with price, tick size and amount given, up to the price check
CreateMarketOrderAmounts ==
    /\ amt.pc = "idle"
    /\ \E o \in AmountOrders :
          /\ price_valid(in_price_scale(o.price), o.tick_size) = "valid"
          /\ get_round_config_ok(o.tick_size)
          /\ amt' = [AmtIdle EXCEPT !.pc = "raw_price", !.tick_size = o.tick_size,
                                    !.side = o.side, !.terms = <<o.price, o.amount>>,
                                    !.price = stod_exact(o.price),
                                    !.amount = stod_exact(o.amount)]
    /\ UNCHANGED <<wsVars, moVars, httpVars, obVars, faVars, feedVars, hbVars>>

\* double raw_price = round_normal(price, round_config.price);
RawPrice ==
    /\ amt.pc = "raw_price"
    /\ amt' = [amt EXCEPT !.raw_price = round_normal(amt.price, round_config.price),
                          !.pc = "raw_maker_amt"]
    /\ UNCHANGED <<wsVars, moVars, httpVars, obVars, faVars, feedVars, hbVars>>

\* double raw_maker_amt = round_down(params.amount, round_config.size);
RawMakerAmt ==
    /\ amt.pc = "raw_maker_amt"
    /\ amt' = [amt EXCEPT !.raw_maker_amt = round_down(amt.amount, round_config.size),
                          !.pc = "raw_taker_amt"]
    /\ UNCHANGED <<wsVars, moVars, httpVars, obVars, faVars, feedVars, hbVars>>

\* raw_taker_amt = raw_maker_amt / raw_price (BUY) or raw_maker_amt * raw_price (SELL)
RawTakerAmt ==
    /\ amt.pc = "raw_taker_amt"
    /\ amt' = [amt EXCEPT !.raw_taker_amt = IF amt.side = "BUY"
                                            THEN DDiv(amt.raw_maker_amt, amt.raw_price)
                                            ELSE DMul(amt.raw_maker_amt, amt.raw_price),
                          !.pc = "round_up"]
    /\ UNCHANGED <<wsVars, moVars, httpVars, obVars, faVars, feedVars, hbVars>>

\* if (decimal_places(raw_taker_amt) > round_config.amount)
\*     raw_taker_amt = round_up(raw_taker_amt, round_config.amount + 4);
RoundUp ==
    /\ amt.pc = "round_up"
    /\ IF decimal_places(amt.raw_taker_amt) > round_config.amount
       THEN amt' = [amt EXCEPT !.raw_taker_amt = round_up(@, round_config.amount + 4),
                               !.stages = 1, !.pc = "round_down"]
       ELSE amt' = [amt EXCEPT !.pc = "maker_amount"]
    /\ UNCHANGED <<wsVars, moVars, httpVars, obVars, faVars, feedVars, hbVars>>

\* if (decimal_places(raw_taker_amt) > round_config.amount)
\*     raw_taker_amt = round_down(raw_taker_amt, round_config.amount);
RoundDown ==
    /\ amt.pc = "round_down"
    /\ IF decimal_places(amt.raw_taker_amt) > round_config.amount
       THEN amt' = [amt EXCEPT !.raw_taker_amt = round_down(@, round_config.amount),
                               !.stages = 2, !.pc = "maker_amount"]
       ELSE amt' = [amt EXCEPT !.pc = "maker_amount"]
    /\ UNCHANGED <<wsVars, moVars, httpVars, obVars, faVars, feedVars, hbVars>>

\* order_data.maker_amount = to_wei(raw_maker_amt, 6);
MakerAmount ==
    /\ amt.pc = "maker_amount"
    /\ amt' = [amt EXCEPT !.maker_amount = to_wei(amt.raw_maker_amt, 6),
                          !.pc = "taker_amount"]
    /\ UNCHANGED <<wsVars, moVars, httpVars, obVars, faVars, feedVars, hbVars>>

\* order_data.taker_amount = to_wei(raw_taker_amt, 6); the order is then signed
TakerAmount ==
    /\ amt.pc = "taker_amount"
    /\ amt' = [amt EXCEPT !.taker_amount = to_wei(amt.raw_taker_amt, 6), !.pc = "signed"]
    /\ UNCHANGED <<wsVars, moVars, httpVars, obVars, faVars, feedVars, hbVars>>

\* a caller evaluates the argument of to_wei(amount, decimals)
ToWeiCall ==
    /\ amt.pc = "idle"
    /\ \E terms \in WeiAmounts, decimals \in WeiDecimals :
          amt' = [AmtIdle EXCEPT !.pc = "to_wei", !.terms = terms, !.amount = sum_of(terms),
                                 !.decimals = decimals]
    /\ UNCHANGED <<wsVars, moVars, httpVars, obVars, faVars, feedVars, hbVars>>

\* to_wei runs and returns its string
ToWeiReturn ==
    /\ amt.pc = "to_wei"
    /\ amt' = [amt EXCEPT !.result = to_wei(amt.amount, amt.decimals), !.pc = "returned"]
    /\ UNCHANGED <<wsVars, moVars, httpVars, obVars, faVars, feedVars, hbVars>>

AmountsNext ==
    \/ CreateMarketOrderAmounts \/ RawPrice \/ RawMakerAmt \/ RawTakerAmt \/ RoundUp
    \/ RoundDown \/ MakerAmount \/ TakerAmount \/ ToWeiCall \/ ToWeiReturn

(***************************************************************************)
(* The heartbeat thread and the synchronous calls on the shared handle     *)
(* perform() sets the URL and the header list on curl_ and then runs the   *)
(* transfer; get/post/del set the method first.  The overloads with custom *)
(* headers point headers_ at a temporary list for the time of the call.    *)
(***************************************************************************)

MaxSyncCalls == 2

MaxBeats == 2

SyncMethods == {"GET", "POST", "DELETE"}

\* the options of the easy handle that a transfer reads
HandleInit == [post |-> FALSE, customrequest |-> "", url |-> "", httpheader |-> "default"]

HbInit ==
    hb = [heartbeat_running_ |-> FALSE, curl_mutex_ |-> "none", headers_ |-> "default",
          temp_headers |-> "none", handle |-> HandleInit,
          pc |-> [caller |-> "idle", heartbeat |-> "not_started"],
          call |-> [method |-> "", custom |-> FALSE], sent |-> <<>>, calls |-> 0, beats |-> 0]

\* what the method options of the handle put on the wire
method_of(handle) ==
    IF handle.customrequest # "" THEN handle.customrequest
    ELSE IF handle.post THEN "POST" ELSE "GET"

\* get(): HTTPGET 1, POST 0; post(): POST 1; del(): CUSTOMREQUEST "DELETE"
set_method(handle, method) ==
    IF method = "GET" THEN [handle EXCEPT !.post = FALSE]
    ELSE IF method = "POST" THEN [handle EXCEPT !.post = TRUE]
    ELSE [handle EXCEPT !.customrequest = "DELETE"]

\* the header lists a transfer can send: the list CURLOPT_HTTPHEADER points to, or, when
\* that list has been freed, whatever the freed memory holds
headers_on_wire(list, temp) ==
    IF list = "default" THEN {"default"}
    ELSE IF temp = "alive" THEN {"custom"}
    ELSE {"default", "custom", "garbage"}

\* perform(): curl_easy_setopt(curl_, CURLOPT_URL, url); (CURLOPT_HTTPHEADER, headers_)
perform_setopt(handle, url, headers) == [handle EXCEPT !.url = url, !.httpheader = headers]

HbFrame == UNCHANGED <<wsVars, moVars, httpVars, obVars, faVars, feedVars, amtVars>>

\* curl_easy_perform(curl_) called by thread t: one request goes out with the options the
\* handle has at that moment
curl_easy_perform(t, next) ==
    \E h \in headers_on_wire(hb.handle.httpheader, hb.temp_headers) :
       hb' = [hb EXCEPT !.sent = Append(@, [by |-> t, method |-> method_of(hb.handle),
                                            url |-> hb.handle.url, headers |-> h]),
                        !.pc[t] = next]

\* start_heartbeat(): the thread starts unless one is running
start_heartbeat ==
    /\ hb.pc.caller = "idle"
    /\ ~hb.heartbeat_running_
    /\ hb.pc.heartbeat = "not_started"
    /\ hb' = [hb EXCEPT !.heartbeat_running_ = TRUE, !.pc.heartbeat = "sleep"]
    /\ HbFrame

\* the interval has passed: std::lock_guard<std::mutex> lock(curl_mutex_)
HeartbeatLock ==
    /\ hb.pc.heartbeat = "sleep"
    /\ hb.heartbeat_running_
    /\ hb.beats < MaxBeats
    /\ hb.curl_mutex_ = "none"
    /\ hb' = [hb EXCEPT !.curl_mutex_ = "heartbeat", !.pc.heartbeat = "get"]
    /\ HbFrame

\* get("/"): the method options
HeartbeatGet ==
    /\ hb.pc.heartbeat = "get"
    /\ hb' = [hb EXCEPT !.handle = set_method(@, "GET"), !.pc.heartbeat = "setopt"]
    /\ HbFrame

HeartbeatSetopt ==
    /\ hb.pc.heartbeat = "setopt"
    /\ hb' = [hb EXCEPT !.handle = perform_setopt(@, "/", hb.headers_),
                        !.pc.heartbeat = "perform"]
    /\ HbFrame

HeartbeatPerform ==
    /\ hb.pc.heartbeat = "perform"
    /\ curl_easy_perform("heartbeat", "unlock")
    /\ HbFrame

\* the lock_guard ends with the loop body
HeartbeatUnlock ==
    /\ hb.pc.heartbeat = "unlock"
    /\ hb' = [hb EXCEPT !.curl_mutex_ = "none", !.beats = @ + 1, !.pc.heartbeat = "sleep"]
    /\ HbFrame

\* stop_heartbeat(): heartbeat_running_ = false, then join
stop_heartbeat ==
    /\ hb.pc.caller = "idle"
    /\ hb.heartbeat_running_
    /\ hb' = [hb EXCEPT !.heartbeat_running_ = FALSE, !.pc.caller = "join"]
    /\ HbFrame

\* the loop sees heartbeat_running_ false and the thread ends
HeartbeatExit ==
    /\ hb.pc.heartbeat = "sleep"
    /\ ~hb.heartbeat_running_
    /\ hb' = [hb EXCEPT !.pc.heartbeat = "done"]
    /\ HbFrame

HeartbeatJoined ==
    /\ hb.pc.caller = "join"
    /\ hb.pc.heartbeat = "done"
    /\ hb' = [hb EXCEPT !.pc.caller = "idle"]
    /\ HbFrame

\* get / post / del called on the caller thread, with or without custom headers; with
\* them, headers_ = temp_headers
SyncCall(method, custom) ==
    /\ hb.pc.caller = "idle"
    /\ hb.calls < MaxSyncCalls
    /\ hb' = [hb EXCEPT !.call = [method |-> method, custom |-> custom],
                        !.calls = @ + 1,
                        !.headers_ = IF custom THEN "temp" ELSE @,
                        !.temp_headers = IF custom THEN "alive" ELSE @,
                        !.pc.caller = "method"]
    /\ HbFrame

SyncMethod ==
    /\ hb.pc.caller = "method"
    /\ hb' = [hb EXCEPT !.handle = set_method(@, hb.call.method), !.pc.caller = "setopt"]
    /\ HbFrame

SyncSetopt ==
    /\ hb.pc.caller = "setopt"
    /\ hb' = [hb EXCEPT !.handle = perform_setopt(@, "/order", hb.headers_),
                        !.pc.caller = "perform"]
    /\ HbFrame

SyncPerform ==
    /\ hb.pc.caller = "perform"
    /\ curl_easy_perform("caller", "restore")
    /\ HbFrame

\* del() resets CUSTOMREQUEST; the overloads with custom headers free the list headers_
\* points to and restore the original
SyncRestore ==
    /\ hb.pc.caller = "restore"
    /\ hb' = [hb EXCEPT !.handle.customrequest = IF hb.call.method = "DELETE" THEN "" ELSE @,
                        !.temp_headers = IF hb.call.custom THEN "freed" ELSE @,
                        !.headers_ = IF hb.call.custom THEN "default" ELSE @,
                        !.pc.caller = "idle"]
    /\ HbFrame

HeartbeatNext ==
    \/ start_heartbeat \/ stop_heartbeat \/ HeartbeatJoined
    \/ HeartbeatLock \/ HeartbeatGet \/ HeartbeatSetopt \/ HeartbeatPerform
    \/ HeartbeatUnlock \/ HeartbeatExit
    \/ \E method \in SyncMethods, custom \in BOOLEAN : SyncCall(method, custom)
    \/ SyncMethod \/ SyncSetopt \/ SyncPerform \/ SyncRestore

Init == WsInit /\ MoInit /\ HttpInit /\ ObInit /\ FaInit /\ FeedInit /\ AmtInit /\ HbInit

SpecMo == Init /\ [][MoNext]_vars

SpecHttp == Init /\ [][HttpNext]_vars

SpecOb == Init /\ [][ObNext]_vars

\* both threads keep running; whether the connection is lost is up to the network
SpecObFair == Init /\ [][ObNext]_vars /\ WF_vars(SocketProgress) /\ WF_vars(CallerThread)

SpecFacade == Init /\ [][FacadeNext]_vars

SpecFeed == Init /\ [][FeedNext]_vars

SpecAmounts == Init /\ [][AmountsNext]_vars

SpecHeartbeat == Init /\ [][HeartbeatNext]_vars

\* the asynchronous engine and the synchronous calls of one HttpClient
SpecTransport == Init /\ [][HttpNext \/ SyncNext]_vars

\* Threads that are running keep running, and every transfer ends (CURLOPT_TIMEOUT_MS).
SpecHttpFair ==
    /\ Init /\ [][HttpNext]_vars
    /\ WF_vars(CallerStep)
    /\ WF_vars(WorkerStep)
    /\ \A r \in Requests : WF_vars(TransferEnds(r))

\* the entries of thread t's `completed` vector its delivery loop has still to call
Undelivered(t) ==
    IF h_pc[t] \in {"poll_read", "poll_deliver"}
    THEN {completed[t][i].req : i \in next_entry[t]..Len(completed[t])}
    ELSE {}

\* C3 (safety part): a request's callback is never invoked twice; a request that was
\* enqueued and whose callback has not run yet is still owned by exactly one place (the
\* pending map, or one thread's vector of completions to deliver); and the response a
\* callback received is the one built from that request's own transfer result.
C3_Safety ==
    \A r \in Requests :
        /\ calls[r] <= 1
        /\ (transfer[r].st # "new" /\ calls[r] = 0) =>
               \/ r \in pending_async_requests_ /\ \A t \in Threads : r \notin Undelivered(t)
               \/ /\ r \notin pending_async_requests_
                  /\ \E t \in Threads : /\ r \in Undelivered(t)
                                        /\ \A u \in Threads \ {t} : r \notin Undelivered(u)
        /\ calls[r] = 1 =>
               /\ r \notin pending_async_requests_
               /\ \A t \in Threads : r \notin Undelivered(t)
               /\ transfer[r].res.result = "CURLE_OK" =>
                      /\ got[r].status_code = transfer[r].res.status
                      /\ got[r].error = ""
               /\ transfer[r].res.result # "CURLE_OK" =>
                      /\ got[r].status_code = 0
                      /\ got[r].error = curl_easy_strerror(transfer[r].res.result)

\* C3: every request issued through get_async / post_async has its callback invoked exactly
\* once, with that request's completion (success, HTTP error, transport error or timeout),
\* whatever the interleaving of the worker thread and the caller's poll_async calls.
C3_CallbackExactlyOnce ==
    /\ []C3_Safety
    /\ \A r \in Requests : (transfer[r].st # "new") ~> (calls[r] = 1)

\* both requests were delivered exactly once, the two completions were read by two
\* different threads' polls, and the outcomes differ (a success and a timeout)
C3_Witness ==
    /\ \A r \in Requests : calls[r] = 1
    /\ \E r1, r2 \in Requests :
          /\ got[r1].status_code = 200 /\ got[r1].error = ""
          /\ got[r2].status_code = 0
          /\ got[r2].error = curl_easy_strerror("CURLE_OPERATION_TIMEDOUT")
    /\ h_pc["caller"] = "poll_deliver" /\ Len(completed["caller"]) = 1
    /\ h_pc["worker"] = "poll_deliver" /\ Len(completed["worker"]) = 1

\* C4: when the async market-order call has ended, whatever the outcome of its steps,
\* the caller's callback was invoked exactly once.
C4_CallbackExactlyOnce == (mo.pc \in {"finished", "threw"}) => mo.cb = 1

\* the requests the pipeline issues when every step succeeds, from the call's parameters
ExpectedRequests(p) ==
    IF p.strict_no_fetch THEN <<"POST /order">>
    ELSE (IF p.tick_size \in {"none", ""} THEN <<"GET /tick-size">> ELSE <<>>)
         \o (IF p.price <= 0 THEN <<"GET /book">> ELSE <<>>)
         \o (IF p.neg_risk = "none" THEN <<"GET /neg-risk">> ELSE <<>>)
         \o (IF ~p.fee_rate_bps_provided THEN <<"GET /fee-rate">> ELSE <<>>)
         \o <<"POST /order">>

IsPrefix(a, b) == Len(a) <= Len(b) /\ a = SubSeq(b, 1, Len(a))

\* a probe completed successfully: a 2xx answer with a body that parses
StepSucceeded(resp) == resp.kind = "ok" /\ resp.body # "malformed"

MoAsyncPcs == {"wait_tick_size", "wait_book", "wait_neg_risk", "wait_fee_rate", "wait_post",
               "finished", "threw"}

\* C5: the async pipeline's requests are the probes of the missing inputs in the order
\* /tick-size, /book, /neg-risk, /fee-rate, then one POST /order; a request is issued
\* only after every earlier one completed successfully, and a successful submission
\* has issued exactly that sequence (only POST /order under strict_no_fetch).
C5_RequestOrder ==
    mo.pc \in MoAsyncPcs =>
       /\ IsPrefix(mo.requests, ExpectedRequests(mo.params))
       /\ Len(mo.outcomes) \in {Len(mo.requests), Len(mo.requests) - 1}
       /\ \A i \in 1..(Len(mo.requests) - 1) : StepSucceeded(mo.outcomes[i])
       /\ (mo.pc \in {"finished", "threw"} => Len(mo.outcomes) = Len(mo.requests))
       /\ (mo.result \in {"success", "order failed"}
              => mo.requests = ExpectedRequests(mo.params))

\* C5 witness: all four probes were issued and the order was posted successfully
C5_Witness ==
    /\ mo.pc = "finished" /\ mo.result = "success"
    /\ mo.requests = <<"GET /tick-size", "GET /book", "GET /neg-risk", "GET /fee-rate",
                       "POST /order">>

\* strict_no_fetch with one of the four inputs not provided
StrictMissing(p) ==
    /\ p.strict_no_fetch
    /\ \/ p.tick_size \in {"none", ""}
       \/ p.price <= 0
       \/ p.neg_risk = "none"
       \/ ~p.fee_rate_bps_provided \/ p.fee_rate_bps = ""

MissingInputErrors ==
    {"strict_no_fetch requires tick_size", "strict_no_fetch requires price",
     "strict_no_fetch requires neg_risk", "strict_no_fetch requires fee_rate_bps"}

\* C6 as stated: under strict_no_fetch with an input missing, the operation (sync or
\* async) ends with a missing-input error and has issued no HTTP request.
C6_Original ==
    (mo.pc # "idle" /\ StrictMissing(mo.params)) =>
        /\ mo.requests = <<>>
        /\ mo.result \in MissingInputErrors

\* C6 as amended: on an authenticated client the operation ends with a missing-input
\* error (thrown by the sync call, delivered once to the callback by the async call);
\* on a client without credentials it ends with the not-authenticated error; in both
\* cases no HTTP request is issued.
C6_StrictMissingInput ==
    (mo.pc # "idle" /\ StrictMissing(mo.params)) =>
        /\ mo.requests = <<>>
        /\ mo.pc \in {"finished", "sync_threw"}
        /\ (mo.pc = "finished" => mo.cb = 1)
        /\ (mo.params.auth => mo.result \in MissingInputErrors)
        /\ (~mo.params.auth => mo.result = "Client not authenticated")

\* C6 witness: an authenticated async call that lacks only the fee rate
C6_Witness ==
    /\ mo.pc = "finished" /\ mo.params.auth /\ mo.params.strict_no_fetch
    /\ mo.params.tick_size = "0.01" /\ mo.params.price = 5000 /\ mo.params.neg_risk = "true"
    /\ ~mo.params.fee_rate_bps_provided
    /\ mo.result = "strict_no_fetch requires fee_rate_bps" /\ mo.requests = <<>>

SpecWs == Init /\ [][WsNext]_vars

\* Both threads are scheduled by the operating system: each keeps taking steps.
SpecWsFair == Init /\ [][WsNext]_vars /\ WF_vars(RunThread) /\ WF_vars(StopThread)

\* C7: once stop() has been called, run() returns and running_ becomes false.
C7_StopEndsRun == (stop_pc # "idle") ~> (run_pc = "returned" /\ ~running_)

(***************************************************************************)
(* Claims about the order-book manager                                     *)
(***************************************************************************)

\* the market record of the token the socket thread is handling an update for
MarketOfUpdate == markets_[token_to_condition_[upd.asset_id]]

\* the update being handled is for a token of a subscribed market
ForSubscribedMarket ==
    /\ token_to_condition_[upd.asset_id] \in Conditions
    /\ MarketOfUpdate.present

\* C1: for every book update handled for a token of a subscribed market (and not
\* overlapped by a caller-thread subscribe, unsubscribe or unsubscribe_all): if after
\* the update both best asks are > 0 and their sum is below trigger_combined (0.98), the
\* arbitrage callback was invoked exactly once for that update, with the combined price;
\* otherwise it was not invoked at all for that update.
C1_ArbOncePerQualifyingUpdate ==
    (s_pc = "hu_return" /\ ~upd.interfered) =>
        IF /\ ForSubscribedMarket
           /\ MarketOfUpdate.best_ask_yes > 0
           /\ MarketOfUpdate.best_ask_no > 0
           /\ MarketOfUpdate.best_ask_yes + MarketOfUpdate.best_ask_no < 98
        THEN /\ upd.arb_calls = 1
             /\ upd.arb_combined = MarketOfUpdate.best_ask_yes + MarketOfUpdate.best_ask_no
        ELSE upd.arb_calls = 0

\* the second update of the spec's example: YES ask 0.48 was set, this update sets the NO
\* ask to 0.49, and the callback ran once with combined 0.97
C1_Witness ==
    /\ s_pc = "hu_return" /\ ~upd.interfered
    /\ total_updates_ = 2
    /\ upd.asset_id = "n1"
    /\ ForSubscribedMarket
    /\ MarketOfUpdate.best_ask_yes = 48 /\ MarketOfUpdate.best_ask_no = 49
    /\ upd.arb_calls = 1 /\ upd.arb_combined = 97

HandlingOrder == <<"store", "market", "update_cb", "arb_check", "arb_cb">>

\* the lowest price of a list of asks, 1.0 when there is none
LowestAsk(asks) ==
    IF asks = <<>> THEN 100
    ELSE CHOOSE v \in {asks[i] : i \in 1..Len(asks)} : \A i \in 1..Len(asks) : v <= asks[i]

\* the arbitrage callback is about to be invoked, or was invoked, for the update being handled
ArbFires == s_pc = "hu_arb_cb" \/ (s_pc = "hu_return" /\ upd.arb_calls > 0)

\* C2: within the handling of one book update the steps happen in the order: store the
\* book, update the market's best ask, user update callback, arbitrage detector, arbitrage
\* callback (in every interleaving); and when the arbitrage callback fires (for a handling
\* not overlapped by a caller-thread write) the stored book is the update's book, the
\* market's best ask for that outcome is the book's lowest ask, and the detector read
\* exactly that market state.
C2_DetectorRunsLast ==
    /\ s_pc \in UpdatePcs => IsPrefix(upd.trace, HandlingOrder)
    /\ ArbFires => SubSeq(upd.trace, 1, 4) = SubSeq(HandlingOrder, 1, 4)
    /\ (ArbFires /\ ~upd.interfered) =>
          /\ orderbooks_[upd.asset_id] = [present |-> TRUE, asks |-> upd.asks]
          /\ ForSubscribedMarket
          /\ upd.asset_id = MarketOfUpdate.token_yes =>
                 MarketOfUpdate.best_ask_yes = LowestAsk(upd.asks)
          /\ upd.asset_id = MarketOfUpdate.token_no =>
                 MarketOfUpdate.best_ask_no = LowestAsk(upd.asks)
          /\ upd.arb_market = <<MarketOfUpdate.best_ask_yes, MarketOfUpdate.best_ask_no>>

\* the arbitrage callback has run for a two-level book whose best ask is its second level
C2_Witness ==
    /\ s_pc = "hu_return" /\ ~upd.interfered
    /\ upd.trace = HandlingOrder
    /\ upd.asset_id = "y1" /\ upd.asks = <<49, 48>>
    /\ MarketOfUpdate.best_ask_yes = 48

\* C8: every time the socket opens, one join message is sent whose assets_ids is the
\* subscription set as it is at that moment.
C8_JoinOnEveryOpen ==
    s_pc = "ssm_return" =>
        /\ Len(joins) = 1
        /\ ~opened.interfered => joins[1] = subscribed_tokens_

NoAccess == {}

\* what the caller thread's next statement reads or writes, and under which mutex
CallerAccess ==
    CASE c_pc \in {"sub_markets", "ua_markets"} ->
             {[object |-> "markets_", write |-> TRUE, mutex |-> "markets_mutex_"]}
      [] c_pc \in {"gm_lock", "gm_yes", "gm_no"} ->
             {[object |-> "markets_", write |-> FALSE, mutex |-> "markets_mutex_"]}
      [] c_pc \in {"unsub_book", "ua_books"} ->
             {[object |-> "orderbooks_", write |-> TRUE, mutex |-> "orderbooks_mutex_"]}
      [] c_pc \in MapWritePcs ->
             {[object |-> "token_to_condition_", write |-> TRUE, mutex |-> "none"]}
      [] c_pc \in ListWritePcs ->
             {[object |-> "subscribed_tokens_", write |-> TRUE, mutex |-> "none"]}
      [] OTHER -> NoAccess

\* what the socket thread's next statement reads or writes, and under which mutex
SocketAccess ==
    CASE s_pc = "hu_store" ->
             {[object |-> "orderbooks_", write |-> TRUE, mutex |-> "orderbooks_mutex_"]}
      [] s_pc = "hu_lookup" ->
             {[object |-> "token_to_condition_", write |-> FALSE, mutex |-> "none"]}
      [] s_pc = "hu_market" ->
             {[object |-> "markets_", write |-> TRUE, mutex |-> "markets_mutex_"],
              [object |-> "token_to_condition_", write |-> FALSE, mutex |-> "none"]}
      [] s_pc = "hu_arb" ->
             {[object |-> "markets_", write |-> FALSE, mutex |-> "markets_mutex_"],
              [object |-> "token_to_condition_", write |-> FALSE, mutex |-> "none"]}
      [] s_pc \in {"ssm_empty", "ssm_send"} ->
             {[object |-> "subscribed_tokens_", write |-> FALSE, mutex |-> "none"]}
      [] OTHER -> NoAccess

\* C9: in no interleaving does one thread write one of the manager's maps (or the
\* subscription list) while the other thread reads or writes it without mutual exclusion:
\* two accesses of the same object that are both about to happen, one of them a write,
\* are made under the same mutex.
C9_NoUnprotectedAccess ==
    \A a \in CallerAccess, b \in SocketAccess :
        (a.object = b.object /\ (a.write \/ b.write)) =>
            (a.mutex # "none" /\ a.mutex = b.mutex)

\* C10: a snapshot returned by get_market never reflects a partial write: both best asks
\* were loaded when the market record had been written the same number of times as when
\* the lock was taken, the pair is the record's pair after those writes, and successive
\* snapshots correspond to non-decreasing numbers of writes.
C10_SnapshotIsWholePrefix ==
    (snap.n > 0 /\ c_pc \notin {"gm_yes", "gm_no"}) =>
        /\ snap.at_yes = snap.at_lock
        /\ snap.at_no = snap.at_lock
        /\ <<snap.best_ask_yes, snap.best_ask_no>> = snap.locked_pair
        /\ snap.previous <= snap.at_lock

\* a second snapshot was returned while the socket thread waits to write the market
\* record; an update was written between the two snapshots
C10_Witness ==
    /\ snap.n = 2 /\ c_pc = "idle"
    /\ snap.previous < snap.at_lock
    /\ snap.best_ask_yes = 48
    /\ s_pc = "hu_market"

(***************************************************************************)
(* Claims about the facade and the synchronous calls                       *)
(***************************************************************************)

\* an exchange whose request carries L2 headers
HasL2(x) == x.headers.method \notin {"", "L1"}

\* C11: for every authenticated request whose outbound URL carries a query string, the
\* path handed to L2 signature generation is the logical path, without the query string.
C11_SignedPathHasNoQuery ==
    \A i \in 1..Len(wire) :
        (HasL2(wire[i]) /\ wire[i].url.query # "") =>
            /\ wire[i].headers.path.query = ""
            /\ wire[i].headers.path.path = wire[i].url.path

CancelOps == {"cancel_order", "cancel_orders", "cancel_all", "cancel_market_orders"}

\* C12: each cancel operation issues one DELETE request carrying a JSON body, so the method
\* on the wire is the method over which the L2 signature was computed.
C12_CancelIsDelete ==
    (fa.op \in CancelOps /\ fa.outcome = "returned") =>
        /\ Len(wire) = 1
        /\ wire[1].method = "DELETE"
        /\ wire[1].body # ""
        /\ wire[1].method = wire[1].headers.method

\* the operations that need an authenticated client
AuthenticatedOps ==
    CancelOps \cup
    {"get_open_orders", "get_trades", "get_earnings_for_user_for_day",
     "get_total_earnings_for_user_for_day", "get_balance_allowance",
     "create_order", "post_order", "post_orders", "create_or_derive_api_key"}

\* a facade call made on a client without signer and credentials (post_orders: non-empty)
UnauthenticatedCall ==
    /\ fa.op \in AuthenticatedOps
    /\ ~fa.authenticated
    /\ fa.op = "post_orders" => fa.arg = "true"

\* the async market-order pipeline was started on a client without credentials
UnauthenticatedPipeline == mo.pc # "idle" /\ ~mo.params.auth

\* C13 as stated: every authenticated operation invoked on a client without signer and
\* credentials fails with the not-authenticated error and issues no HTTP request.
C13_Original ==
    /\ UnauthenticatedCall => (fa.outcome = NotAuthenticated /\ wire = <<>>)
    /\ UnauthenticatedPipeline =>
           (mo.cb = 1 /\ mo.result = NotAuthenticated /\ mo.requests = <<>>)

\* C13 (amended): every authenticated operation invoked on a client without signer and
\* credentials fails and issues no HTTP request and signs nothing; the error is the
\* not-authenticated error, except that post_order and post_orders may fail with the
\* post_only validation error, which they check first.
C13_UnauthenticatedFailsWithoutRequest ==
    /\ UnauthenticatedCall =>
           /\ wire = <<>>
           /\ fa.signed = <<>>
           /\ \/ fa.outcome = NotAuthenticated
              \/ fa.op \in {"post_order", "post_orders"} /\ fa.outcome = PostOnlyUnsupported
    /\ UnauthenticatedPipeline =>
           (mo.cb = 1 /\ mo.result = NotAuthenticated /\ mo.requests = <<>>)

C13_Witness ==
    /\ UnauthenticatedCall /\ fa.op = "cancel_order" /\ fa.outcome = NotAuthenticated
    /\ UnauthenticatedPipeline /\ mo.cb = 1

\* C15: post_orders on a non-empty batch returns one result per element of the server's
\* array, or, when the server answers with a single error object, a one-element list
\* holding that error; the list is never empty.
C15_BatchResultsNeverEmpty ==
    (fa.op = "post_orders" /\ fa.arg = "true" /\ fa.outcome = "returned") =>
        LET j == json_parse(last_response.body)
        IN /\ j.kind = "array" => fa.result = j.items
           /\ j.kind = "object" => fa.result = j.items
           /\ fa.result # <<>>

\* the credentials request of an exchange
IsDerive(x) == x.method = "GET" /\ x.url = Path("/auth/derive-api-key")

IsCreate(x) == x.method = "POST" /\ x.url = Path("/auth/api-key")

\* a reply from which no credentials can be taken: non-2xx, or not a credentials object
CredentialsFailed(x) ==
    \/ ~HttpResponse_ok(x.response)
    \/ json_parse(x.response.body) # [kind |-> "object", items |-> <<"creds">>]

\* C16: create_or_derive_api_credentials calls the derive endpoint first; the create
\* endpoint is called if and only if derive failed, and after it; if derive succeeds its
\* credentials are returned without a create request; if both fail an error is reported.
C16_DeriveThenCreate ==
    (fa.op = "create_or_derive_api_key" /\ fa.authenticated) =>
        /\ Len(wire) \in {1, 2}
        /\ IsDerive(wire[1])
        /\ Len(wire) = 2 <=> CredentialsFailed(wire[1])
        /\ Len(wire) = 2 => IsCreate(wire[2])
        /\ Len(wire) = 1 => (fa.outcome = "returned" /\ fa.result = <<"creds">>)
        /\ Len(wire) = 2 =>
               IF CredentialsFailed(wire[2])
               THEN fa.outcome = "Could not derive or create API credentials"
               ELSE fa.outcome = "returned" /\ fa.result = <<"creds">>

C16_Witness ==
    /\ fa.op = "create_or_derive_api_key" /\ fa.authenticated
    /\ Len(wire) = 2 /\ fa.outcome = "returned"

\* the body as it was on the wire: the chunks one after the other
RECURSIVE WireBody(_)
WireBody(chunks) == IF chunks = <<>> THEN <<>> ELSE Head(chunks) \o WireBody(Tail(chunks))

\* the error mapping between what happened on the wire and the HttpResponse
ErrorMapping(reply, response) ==
    /\ reply.result # "CURLE_OK" => (response.error # "" /\ response.status_code = 0)
    /\ reply.result = "CURLE_OK" =>
           /\ response.status_code = reply.status
           /\ response.body = WireBody(reply.chunks)
           /\ response.error = ""
    /\ response.error # "" <=> response.status_code = 0

\* C14: every HttpResponse returned by a synchronous call or delivered to an async callback
\* has, on a network failure or timeout, a non-empty error and status_code 0; otherwise the
\* wire status code, the body verbatim and an empty error.
C14_ErrorMapping ==
    /\ \A i \in 1..Len(wire) : ErrorMapping(wire[i].reply, wire[i].response)
    /\ wire # <<>> => last_response = wire[Len(wire)].response
    /\ \A r \in Requests : calls[r] > 0 => ErrorMapping(transfer[r].res, got[r])

C14_Witness ==
    /\ wire # <<>> /\ wire[1].reply.result = "CURLE_OPERATION_TIMEDOUT"
    /\ \E r \in Requests : calls[r] > 0 /\ got[r].status_code = 200 /\ Len(got[r].body) = 2

(***************************************************************************)
(* Claims about book ingestion and subscribe                               *)
(***************************************************************************)

IsDescending(s) == \A i \in 1..(Len(s) - 1) : s[i] >= s[i + 1]

IsAscending(s) == \A i \in 1..(Len(s) - 1) : s[i] <= s[i + 1]

\* C17: after any book message is ingested, in either envelope format, and for books
\* fetched over REST, the stored book has its bids in descending price order and its asks
\* in ascending price order, whatever order the upstream delivered them in.
C17_StoredBookIsSorted ==
    /\ \A t \in Tokens :
          feed.orderbooks_[t].present =>
              (IsDescending(feed.orderbooks_[t].bids) /\ IsAscending(feed.orderbooks_[t].asks))
    /\ feed.fetched.present =>
          (IsDescending(feed.fetched.bids) /\ IsAscending(feed.fetched.asks))

\* a book message with an accepted envelope, an asset_id and readable levels
WellFormed(m) ==
    /\ m.text = "object"
    /\ \/ m.envelope = "legacy" /\ m.kind \in {"book", "price_change"}
       \/ m.envelope = "realtime" /\ m.kind = "agg_orderbook"
    /\ m.asset_id # ""
    /\ \A i \in 1..Len(m.bids) : m.bids[i] >= 0
    /\ \A i \in 1..Len(m.asks) : m.asks[i] >= 0

\* the same levels, in whatever order
SameLevels(a, b) == Len(a) = Len(b) /\ {a[i] : i \in 1..Len(a)} = {b[i] : i \in 1..Len(b)}

\* C18: a well-formed book message is accepted and its book stored under its asset_id in
\* all four combinations of envelope format and value encoding (strings or numbers).
C18_WellFormedIsStored ==
    (feed.op = "handle_message" /\ WellFormed(feed.msg)) =>
        /\ feed.outcome = "stored"
        /\ feed.orderbooks_[feed.msg.asset_id].present
        /\ SameLevels(feed.orderbooks_[feed.msg.asset_id].bids, feed.msg.bids)
        /\ SameLevels(feed.orderbooks_[feed.msg.asset_id].asks, feed.msg.asks)

\* a message the claim lists as dropped: empty, "{}", not JSON, neither envelope shape,
\* no asset_id, or one whose levels cannot be read
Droppable(m) ==
    \/ m.text \in {"empty", "braces", "invalid", "array"}
    \/ m.envelope = "none"
    \/ m.envelope = "legacy" /\ m.kind \notin {"book", "price_change"}
    \/ m.envelope = "realtime" /\ m.kind # "agg_orderbook"
    \/ m.asset_id = ""
    \/ \E i \in 1..Len(m.bids) : m.bids[i] < 0
    \/ \E i \in 1..Len(m.asks) : m.asks[i] < 0

\* C20: a message that is empty, is "{}", is not valid JSON, has neither accepted envelope
\* shape, lacks asset_id, or fails while its levels are parsed is dropped silently: no
\* exception escapes, the book map, the markets' best asks and the two counters are
\* unchanged, and no user callback is invoked.
C20_DroppedMessageChangesNothing ==
    [][ (feed'.op = "handle_message" /\ Droppable(feed'.msg)) =>
            /\ feed'.outcome = "dropped"
            /\ ~feed'.escaped
            /\ feed'.orderbooks_ = feed.orderbooks_
            /\ feed'.markets_ = feed.markets_
            /\ feed'.total_updates_ = feed.total_updates_
            /\ feed'.arb_opportunities_ = feed.arb_opportunities_
            /\ feed'.update_cb = feed.update_cb
            /\ feed'.arb_cb = feed.arb_cb ]_vars

C20_Witness ==
    /\ feed.op = "handle_message" /\ feed.outcome = "dropped"
    /\ feed.msg.envelope = "legacy" /\ feed.msg.kind = "book" /\ feed.msg.asset_id = "y1"
    /\ feed.msg.asks = <<0 - 1>>
    /\ feed.orderbooks_["y1"].present /\ feed.update_cb = 1

\* C19: subscribe(market) creates the market record with best_ask_yes = 0 and
\* best_ask_no = 0, whatever the passed MarketState carries, and adds both outcome tokens
\* to the join set.
C19_SubscribeZeroesBestAsks ==
    [][ /\ (c_pc = "sub_markets" /\ c_pc' = "sub_map_yes") =>
              LET m == markets_'[c_arg.market.condition_id]
              IN m.present /\ m.best_ask_yes = 0 /\ m.best_ask_no = 0
        /\ (c_pc = "sub_push_no" /\ c_pc' = "idle") =>
              \A t \in {c_arg.market.token_yes, c_arg.market.token_no} :
                 \E i \in 1..Len(subscribed_tokens_') : subscribed_tokens_'[i] = t ]_vars

\* the requests get_async / post_async have enqueued
Enqueued == {r \in Requests : transfer[r].st # "new"}

\* the entries a thread's poll has collected and not yet handed to their callbacks
AwaitingDelivery(t) ==
    IF h_pc[t] \in {"poll_read", "poll_deliver"}
    THEN {completed[t][i].req : i \in next_entry[t]..Len(completed[t])}
    ELSE {}

\* C21 as stated: whenever pending_async() can return (async_mutex_ is free) it equals
\* the number of enqueued requests whose callback has not been invoked, so a result of 0
\* means every enqueued request's callback has been invoked.
C21_Original ==
    async_mutex_ = "free" =>
        /\ pending_async = Cardinality({r \in Enqueued : calls[r] = 0})
        /\ (pending_async = 0 => \A r \in Enqueued : calls[r] = 1)

\* C21 amended: whenever pending_async() can return it equals the number of enqueued
\* requests whose completion no poll has collected yet; a result of 0 means every
\* enqueued request's callback has been invoked or is about to be invoked by the thread
\* whose poll collected it.
C21_PendingIsUncollected ==
    async_mutex_ = "free" =>
        /\ pending_async = Cardinality({r \in Enqueued : transfer[r].st \in {"active", "ended"}})
        /\ (pending_async = 0 =>
               \A r \in Enqueued : calls[r] = 1 \/ \E t \in Threads : r \in AwaitingDelivery(t))

\* the worker has collected a completion and released the lock, the map is empty, and the
\* request's callback has not run yet
C21_Witness ==
    /\ async_mutex_ = "free" /\ pending_async = 0 /\ async_running_
    /\ h_pc["worker"] = "poll_deliver"
    /\ \E r \in Enqueued : calls[r] = 0 /\ r \in AwaitingDelivery("worker")

\* the level of `levels` (a non-empty set of levels) with the worst price of its side:
\* the highest ask for a BUY, the lowest bid for a SELL
WorstLevel(levels, side) ==
    CHOOSE l \in levels :
        \A k \in levels : IF side = "BUY" THEN k.price <= l.price ELSE k.price >= l.price

\* the best price of a side: the lowest ask for a BUY, the highest bid for a SELL
BestPrice(levels, side) ==
    LET l == CHOOSE l \in levels :
                 \A k \in levels : IF side = "BUY" THEN k.price >= l.price ELSE k.price <= l.price
    IN l.price

RECURSIVE ReferenceScan(_, _, _, _)
\* the traversal the documentation describes: from the worst to the best price
ReferenceScan(levels, side, sum, amount) ==
    IF levels = {} THEN NoMatch
    ELSE LET l == WorstLevel(levels, side)
             sum2 == IF side = "BUY" THEN sum + l.size * l.price ELSE sum + l.size
             target == IF side = "BUY" THEN amount * PriceScale ELSE amount
         IN IF sum2 >= target THEN l.price
            ELSE ReferenceScan(levels \ {l}, side, sum2, amount)

ReferencePrice(positions, side, amount, order_type) ==
    LET levels == {positions[i] : i \in 1..Len(positions)}
    IN IF positions = <<>> THEN NoMatch
       ELSE LET hit == ReferenceScan(levels, side, 0, amount)
            IN IF hit # NoMatch THEN hit
               ELSE IF order_type = "FOK" THEN NoMatch
               ELSE BestPrice(levels, side)

\* C22: when a market-order call has priced its order from the book GET /book returned,
\* the price is the reference's: worst-to-best traversal, first price whose accumulation
\* meets the amount, else NoMatch for FOK and the side's best price otherwise; NoMatch on
\* an empty side.
C22_MarketPriceIsReference ==
    \A i \in 1..Len(mo.outcomes) :
        (mo.requests[i] = "GET /book" /\ ok(mo.outcomes[i]) /\ mo.outcomes[i].body = "book") =>
            LET book == mo.outcomes[i].book
                side == mo.params.side
                ref == ReferencePrice(IF side = "BUY" THEN book.asks ELSE book.bids, side,
                                      mo.params.amount, mo.params.order_type)
            IN IF ref = NoMatch THEN mo.result = "no match" ELSE mo.price = ref

(***************************************************************************)
(* Amounts of a market order and base units                                *)
(***************************************************************************)

\* the decimals a base-unit string of 6-decimal collateral has when read as an amount
signed_decimals(str) ==
    IF Len(str) - Len(strip_trailing_zeros(str)) >= 6 THEN 0
    ELSE 6 - (Len(str) - Len(strip_trailing_zeros(str)))

\* C23: the taker amount of a signed market order never has more decimals than the
\* tick's amount precision
C23_TakerWithinTickPrecision ==
    amt.pc = "signed" => signed_decimals(amt.taker_amount) <= round_config.amount

\* the worked example: BUY, amount 1.00, price 0.57, tick 0.01
ExampleOrder ==
    /\ amt.pc = "signed"
    /\ amt.tick_size = "0.01"
    /\ amt.side = "BUY"
    /\ amt.terms = <<Decimal(<<5, 7>>, 2), Decimal(<<1, 0, 0>>, 2)>>

\* C24 as stated: the example ends with taker 1.7544, emitted as 1754400
C24_Original ==
    ExampleOrder =>
        /\ amt.raw_price = stod_exact(Decimal(<<5, 7>>, 2))
        /\ amt.raw_maker_amt = stod_exact(Decimal(<<1>>, 0))
        /\ amt.raw_taker_amt = stod_exact(Decimal(<<1, 7, 5, 4, 4>>, 4))
        /\ amt.maker_amount = <<1, 0, 0, 0, 0, 0, 0>>
        /\ amt.taker_amount = <<1, 7, 5, 4, 4, 0, 0>>

\* C24 (amended): the example gives raw_price 0.57, raw_maker 1.00 and, 1 / 0.57 =
\* 1.754385... being rounded up to 1.75438597 and then down to 4 decimals, a final
\* taker amount of 1.7543, emitted as maker 1000000 and taker 1754300 base units
C24_ExampleAmounts ==
    ExampleOrder =>
        /\ amt.raw_price = stod_exact(Decimal(<<5, 7>>, 2))
        /\ amt.raw_maker_amt = stod_exact(Decimal(<<1>>, 0))
        /\ amt.raw_taker_amt = stod_exact(Decimal(<<1, 7, 5, 4, 3>>, 4))
        /\ amt.maker_amount = <<1, 0, 0, 0, 0, 0, 0>>
        /\ amt.taker_amount = <<1, 7, 5, 4, 3, 0, 0>>

C24_Witness == ExampleOrder /\ amt.stages = 2 /\ amt.taker_amount = <<1, 7, 5, 4, 3, 0, 0>>

\* the whole number n and the scale s with  t1 = n / 10^s  or  t1 + t2 = n / 10^s
exact_scale(terms) ==
    IF Len(terms) = 1 \/ terms[1].scale >= terms[2].scale THEN terms[1].scale
    ELSE terms[2].scale

aligned(dec, scale) == BnMul(BnOfDigits(dec.digits), BnPow10(scale - dec.scale))

exact_number(terms, scale) ==
    IF Len(terms) = 1 THEN aligned(terms[1], scale)
    ELSE BnAdd(aligned(terms[1], scale), aligned(terms[2], scale))

\* the decimal string of floor(a * 10^d) for the decimal number a the terms denote
floor_in_base_units(terms, d) ==
    or_zero(BnDigits(BnDivMod(BnMul(exact_number(terms, exact_scale(terms)), BnPow10(d)),
                              BnPow10(exact_scale(terms))).q))

\* C25: to_wei(a, d) returns the decimal string of floor(a * 10^d) for the decimal
\* amount a it was called with
C25_ToWeiIsFloor ==
    amt.pc = "returned" => amt.result = floor_in_base_units(amt.terms, amt.decimals)


(***************************************************************************)
(* Joining the stream                                                      *)
(***************************************************************************)

InSubscription(t) == \E i \in 1..Len(subscribed_tokens_) : subscribed_tokens_[i] = t

\* a join message that names token t has been sent on the open socket
Joined(t) == \E i \in 1..Len(joins) : \E j \in 1..Len(joins[i]) : joins[i][j] = t

\* subscribe() is about to push token t, which the subscription list does not hold yet
Adding(t) ==
    /\ c_pc = "sub_push_yes"
    /\ t \in {c_arg.market.token_yes, c_arg.market.token_no}
    /\ ~InSubscription(t)

\* C26: a token that subscribe() adds while the socket is connected is afterwards named in
\* a join message, unless the connection is lost or the token is unsubscribed first
C26_SubscribedTokenIsJoined ==
    \A t \in Tokens :
        (Adding(t) /\ state_ = "CONNECTED")
            ~> (Joined(t) \/ state_ # "CONNECTED" \/ (c_pc = "idle" /\ ~InSubscription(t)))


(***************************************************************************)
(* Books and subscriptions                                                 *)
(***************************************************************************)

\* C27: when neither thread is inside an operation, the token->book map holds books
\* only for tokens of the subscription list
C27_BooksOnlyForSubscribed ==
    (c_pc = "idle" /\ s_pc = "idle") =>
        \A t \in Tokens : orderbooks_[t] # NoBook => InSubscription(t)


(***************************************************************************)
(* Callbacks and locks                                                     *)
(***************************************************************************)

\* C28: when the socket thread invokes the update callback or the arbitrage callback it
\* owns markets_mutex_ neither exclusively nor shared
C28_CallbacksHoldNoLock ==
    s_pc \in {"hu_cb", "hu_arb_cb"} =>
        markets_mutex_.writer # "socket" /\ "socket" \notin markets_mutex_.readers


(***************************************************************************)
(* The shared easy handle                                                  *)
(***************************************************************************)

\* thread t is between its first curl_easy_setopt and the end of its call
UsesHandle(t) == hb.pc[t] \in {"setopt", "perform", "restore", "unlock"}

\* C29: the heartbeat's GET and a synchronous call never use the easy handle and
\* headers_ at the same time, and every heartbeat request goes out as GET / with the
\* default headers
C29_HandleUsedByOneThread ==
    /\ ~(UsesHandle("caller") /\ UsesHandle("heartbeat"))
    /\ \A i \in 1..Len(hb.sent) :
          hb.sent[i].by = "heartbeat" =>
              hb.sent[i] = [by |-> "heartbeat", method |-> "GET", url |-> "/",
                            headers |-> "default"]


(***************************************************************************)
(* Signed body and sent body                                               *)
(***************************************************************************)

\* C30: every request that carries L2 headers has on the wire the body over which the
\* L2 signature was computed
C30_SignedBodyIsSentBody ==
    \A i \in 1..Len(wire) : HasL2(wire[i]) => wire[i].headers.body = wire[i].body


====
